---------------------------- MODULE Spec2Model ----------------------------
(***************************************************************************)
(* Model of mcp-conventional-commit's analysis core (src/conventional.ts,  *)
(* second half of src/unnamed/part_003): parseGitDiff, scoreTypes,         *)
(* analyzeDiff, findRelatedRecentCommits and validateTone.                 *)
(*                                                                         *)
(* Text is modelled as a sequence of one-character strings, so that the    *)
(* string operations of the source (split, trim, toLowerCase, includes,    *)
(* the regular expressions) are computed rather than assumed.              *)
(* Scores that the source keeps as doubles are kept exactly: tone scores   *)
(* in thousandths, correlation scores as fractions [n, d].                 *)
(***************************************************************************)
EXTENDS Integers, Sequences, FiniteSets, TLC

VARIABLES
  pc,                   \* position of the modelled caller
  diffText,             \* argument of analyzeDiff / parseGitDiff
  stats,                \* DiffStats handed to scoreTypes
  analysis,             \* DiffAnalysis returned by analyzeDiff
  recentCommits,        \* RecentCommitContext[] argument
  minCorrelationScore,  \* in ten-thousandths
  maxRelated,
  related,              \* RelatedRecentCommit[] returned
  message,              \* argument of validateTone
  relatedSubjects,      \* options.relatedSubjects
  minToneScore,         \* options.minToneScore, in thousandths
  tone,                 \* ToneValidation of message
  retone,               \* ToneValidation of tone.suggestedRewrite
  analyzedFilesByRepo,  \* the server's Map from repository key to file list
  calls,                \* the server's tool calls, in flight or returned
  everStored,           \* history: keys that were given a non-empty file list
  argv,                 \* command line of the preview-flow client
  options,              \* parseArgs(argv)
  clientPc,             \* position of the client's main()
  toolCalls,            \* tool calls the client has made, with their outcome
  invocations           \* history: direct calls of the core's three functions

coreVars == <<pc, diffText, stats, analysis, recentCommits, minCorrelationScore,
              maxRelated, related, message, relatedSubjects, minToneScore, tone,
              retone>>

serverVars == <<analyzedFilesByRepo, calls, everStored>>

clientVars == <<argv, options, clientPc, toolCalls>>

vars == <<coreVars, serverVars, clientVars, invocations>>

Unset == "unset"

---------------------------------------------------------------------------
(* String primitives (ECMAScript String.prototype and RegExp classes).     *)

UpperToLower ==
  ("A" :> "a") @@ ("B" :> "b") @@ ("C" :> "c") @@ ("D" :> "d") @@
  ("E" :> "e") @@ ("F" :> "f") @@ ("G" :> "g") @@ ("H" :> "h") @@
  ("I" :> "i") @@ ("J" :> "j") @@ ("K" :> "k") @@ ("L" :> "l") @@
  ("M" :> "m") @@ ("N" :> "n") @@ ("O" :> "o") @@ ("P" :> "p") @@
  ("Q" :> "q") @@ ("R" :> "r") @@ ("S" :> "s") @@ ("T" :> "t") @@
  ("U" :> "u") @@ ("V" :> "v") @@ ("W" :> "w") @@ ("X" :> "x") @@
  ("Y" :> "y") @@ ("Z" :> "z")

UpperChars == DOMAIN UpperToLower

LowerChars == {UpperToLower[c] : c \in UpperChars}

DigitChars == {"0", "1", "2", "3", "4", "5", "6", "7", "8", "9"}

\* \s of the regular expressions and the characters trim() removes
SpaceChars == {" ", "\t", "\n", "\r"}

\* characters the regular expression "." does not match
LineTerminators == {"\n", "\r"}

\* \w of the regular expressions
WordChars == UpperChars \cup LowerChars \cup DigitChars \cup {"_"}

lowerChar(c) == IF c \in UpperChars THEN UpperToLower[c] ELSE c

\* the sequence a function on 1..n denotes, evaluated once
asSeq(f) == <<>> \o f

toLowerCase(s) == asSeq([i \in 1..Len(s) |-> lowerChar(s[i])])

\* s has p at the 1-based position i
hasAt(s, p, i) ==
  /\ i >= 1
  /\ i + Len(p) - 1 <= Len(s)
  /\ \A k \in 1..Len(p) : s[i + k - 1] = p[k]

startsWith(s, p) == hasAt(s, p, 1)

endsWith(s, p) == hasAt(s, p, Len(s) - Len(p) + 1)

includes(s, p) == \E i \in 1..(Len(s) - Len(p) + 1) : hasAt(s, p, i)

\* s.slice(n) for 0 <= n
sliceFrom(s, n) == SubSeq(s, n + 1, Len(s))

\* 0-based index as in the source, -1 when absent
lastIndexOf(s, c) ==
  IF \E i \in 1..Len(s) : s[i] = c
  THEN (CHOOSE i \in 1..Len(s) : s[i] = c /\ \A j \in (i + 1)..Len(s) : s[j] # c) - 1
  ELSE -1

trim(s) ==
  IF \A i \in 1..Len(s) : s[i] \in SpaceChars
  THEN <<>>
  ELSE LET a == CHOOSE i \in 1..Len(s) :
                  s[i] \notin SpaceChars /\ \A j \in 1..(i - 1) : s[j] \in SpaceChars
           b == CHOOSE i \in 1..Len(s) :
                  s[i] \notin SpaceChars /\ \A j \in (i + 1)..Len(s) : s[j] \in SpaceChars
       IN  SubSeq(s, a, b)

RECURSIVE split(_, _)
\* s.split(c) for a one-character separator c
split(s, c) ==
  IF \A i \in 1..Len(s) : s[i] # c
  THEN <<s>>
  ELSE LET k == CHOOSE i \in 1..Len(s) : s[i] = c /\ \A j \in 1..(i - 1) : s[j] # c
       IN  <<SubSeq(s, 1, k - 1)>> \o split(SubSeq(s, k + 1, Len(s)), c)

RECURSIVE join(_, _)
\* parts.join(sep)
join(parts, sep) ==
  IF Len(parts) = 0 THEN <<>>
  ELSE IF Len(parts) = 1 THEN parts[1]
  ELSE parts[1] \o sep \o join(Tail(parts), sep)

---------------------------------------------------------------------------
(* Tables of conventional.ts                                               *)

ConventionalTypes ==
  <<"feat", "fix", "refactor", "docs", "test", "chore", "build", "ci", "perf", "style">>

DOC_EXTENSIONS ==
  { <<".","m","d">>, <<".","m","d","x">>, <<".","r","s","t">>, <<".","a","d","o","c">>, <<".","t","x","t">> }

TEST_HINTS ==
  << <<"t","e","s","t">>, <<"s","p","e","c">>, <<"_","_","t","e","s","t","s","_","_">>, <<"_","_","m","o","c","k","s","_","_">>, <<"f","i","x","t","u","r","e","s">> >>

CONFIG_HINTS ==
  << <<".","g","i","t","h","u","b","/">>, <<".","g","i","t","l","a","b","/">>, <<".","v","s","c","o","d","e","/">>, <<".","h","u","s","k","y","/">>, <<"d","o","c","k","e","r","f","i","l","e">>,
     <<"d","o","c","k","e","r","-","c","o","m","p","o","s","e">>, <<"t","s","c","o","n","f","i","g">>, <<"e","s","l","i","n","t">>, <<"p","r","e","t","t","i","e","r">>,
     <<"p","a","c","k","a","g","e",".","j","s","o","n">>, <<"p","a","c","k","a","g","e","-","l","o","c","k",".","j","s","o","n">>, <<"p","n","p","m","-","l","o","c","k",".","y","a","m","l">>,
     <<"y","a","r","n",".","l","o","c","k">> >>

FEATURE_KEYWORDS ==
  << <<"a","d","d"," ">>, <<"a","d","d","s"," ">>, <<"a","d","d","e","d"," ">>, <<"n","e","w"," ">>, <<"c","r","e","a","t","e">>, <<"i","n","t","r","o","d","u","c","e">>,
     <<"s","u","p","p","o","r","t">>, <<"e","n","a","b","l","e">>, <<"i","m","p","l","e","m","e","n","t">>, <<"e","x","p","o","s","e">> >>

FIX_KEYWORDS ==
  << <<"f","i","x">>, <<"b","u","g">>, <<"e","r","r","o","r">>, <<"e","x","c","e","p","t","i","o","n">>, <<"p","r","e","v","e","n","t">>, <<"h","a","n","d","l","e">>,
     <<"r","e","s","o","l","v","e">>, <<"c","o","r","r","e","c","t">>, <<"f","a","l","l","b","a","c","k">>, <<"g","u","a","r","d">>, <<"n","u","l","l">>,
     <<"u","n","d","e","f","i","n","e","d">> >>

REFACTOR_KEYWORDS ==
  << <<"r","e","f","a","c","t","o","r">>, <<"c","l","e","a","n","u","p">>, <<"s","i","m","p","l","i","f","y">>, <<"r","e","o","r","g","a","n","i","z","e">>, <<"e","x","t","r","a","c","t">>,
     <<"r","e","n","a","m","e">>, <<"m","o","v","e"," ">>, <<"s","p","l","i","t"," ">> >>

PERF_KEYWORDS ==
  << <<"o","p","t","i","m","i","z">>, <<"p","e","r","f","o","r","m","a","n","c","e">>, <<"f","a","s","t","e","r">>, <<"l","a","t","e","n","c","y">>, <<"t","h","r","o","u","g","h","p","u","t">>,
     <<"m","e","m","o">>, <<"c","a","c","h","e">>, <<"b","e","n","c","h","m","a","r","k">> >>

STYLE_KEYWORDS ==
  << <<"f","o","r","m","a","t">>, <<"l","i","n","t">>, <<"p","r","e","t","t","i","e","r">>, <<"e","s","l","i","n","t","-","d","i","s","a","b","l","e">> >>

VAGUE_SUBJECT_HINTS ==
  << <<"s","t","u","f","f">>, <<"t","h","i","n","g","s">>, <<"m","i","s","c">>, <<"v","a","r","i","o","u","s">>, <<"s","m","a","l","l"," ","c","h","a","n","g","e","s">>,
     <<"f","i","x"," ","i","s","s","u","e">>, <<"u","p","d","a","t","e"," ","f","i","l","e","s">>, <<"c","h","a","n","g","e","s">> >>

TOKEN_STOPWORDS ==
  { <<"t","h","e">>, <<"a","n","d">>, <<"f","o","r">>, <<"w","i","t","h">>, <<"f","r","o","m">>, <<"i","n","t","o">>, <<"t","h","a","t">>,
    <<"t","h","i","s">>, <<"t","h","e","n">>, <<"t","h","a","n">>, <<"w","h","e","n">>, <<"w","h","e","r","e">>, <<"a","f","t","e","r">>,
    <<"b","e","f","o","r","e">>, <<"w","h","i","l","e">>, <<"a","b","o","u","t">>, <<"j","u","s","t">>, <<"o","n","l","y">>, <<"c","h","a","n","g","e">>,
    <<"c","h","a","n","g","e","s">>, <<"u","p","d","a","t","e">>, <<"f","i","x">>, <<"a","d","d">> }

\* the extensions isCode excludes
BINARY_EXTENSIONS ==
  { <<".","p","n","g">>, <<".","j","p","g">>, <<".","j","p","e","g">>, <<".","g","i","f">>, <<".","s","v","g">>, <<".","i","c","o">>, <<".","p","d","f">>,
    <<".","l","o","c","k">> }

---------------------------------------------------------------------------
(* File classification                                                     *)

extensionOf(file) ==
  LET idx == lastIndexOf(file, ".")
  IN  IF idx = -1 THEN <<>> ELSE toLowerCase(sliceFrom(file, idx))

\* isDoc looking at the docs/ directory only, not at the extension
isDoc_directoryOnly(file) == startsWith(toLowerCase(file), <<"d","o","c","s","/">>)

isDoc(file) ==
  LET lc == toLowerCase(file)
  IN  startsWith(lc, <<"d","o","c","s","/">>) \/ extensionOf(lc) \in DOC_EXTENSIONS

isTest(file) ==
  LET lc == toLowerCase(file)
  IN  \E h \in 1..Len(TEST_HINTS) : includes(lc, TEST_HINTS[h])

isConfig(file) ==
  LET lc == toLowerCase(file)
  IN  \E h \in 1..Len(CONFIG_HINTS) : includes(lc, CONFIG_HINTS[h])

\* isCode without the check on configuration files
isCode_configToo(file) ==
  IF isDoc(file)
  THEN FALSE
  ELSE LET ext == extensionOf(file)
       IN  ext # <<>> /\ ext \notin BINARY_EXTENSIONS

isCode(file) ==
  IF isDoc(file) \/ isConfig(file)
  THEN FALSE
  ELSE LET ext == extensionOf(file)
       IN  ext # <<>> /\ ext \notin BINARY_EXTENSIONS

countKeywordHits(line, keywords) ==
  Cardinality({k \in 1..Len(keywords) : includes(line, keywords[k])})

StyleOnlyChars == {"{", "}", "(", ")", "[", "]", ";", ",", "."}

isStyleOnlyChange(line) ==
  LET trimmed == trim(line)
      \* /^\s*(\/\/|\*|\*\/)/ : the text after the leading white space
      rest == IF trimmed = <<>> THEN <<>>
              ELSE SubSeq(line,
                          CHOOSE i \in 1..Len(line) :
                            line[i] \notin SpaceChars
                            /\ \A j \in 1..(i - 1) : line[j] \in SpaceChars,
                          Len(line))
  IN  IF trimmed = <<>> THEN TRUE
      ELSE IF \A i \in 1..Len(trimmed) : trimmed[i] \in StyleOnlyChars THEN TRUE
      ELSE startsWith(rest, <<"/","/">>) \/ startsWith(rest, <<"*">>)

---------------------------------------------------------------------------
(* parseGitDiff                                                            *)

EmptyStats ==
  [files |-> <<>>, additions |-> 0, deletions |-> 0, hasBreakingHint |-> FALSE,
   addedFiles |-> 0, deletedFiles |-> 0, renamedFiles |-> 0,
   featureSignals |-> 0, fixSignals |-> 0, refactorSignals |-> 0,
   perfSignals |-> 0, styleSignals |-> 0]

\* headerSplits accepting any line that starts with the header marker
headerSplits_anyMarker(line) ==
  { k \in 9..(Len(line) - 3) : startsWith(line, <<"d","i","f","f"," ","-","-","g","i","t"," ">>) }

\* line.match(/^diff --git a\/(.+) b\/(.+)$/): the positions k of " b/" that
\* leave both groups non-empty; the groups hold no line terminator
headerSplits(line) ==
  { k \in 15..(Len(line) - 3) :
      /\ startsWith(line, <<"d","i","f","f"," ","-","-","g","i","t"," ","a","/">>)
      /\ hasAt(line, <<" ","b","/">>, k)
      /\ \A i \in 14..Len(line) : line[i] \notin LineTerminators }

\* match[2]: the first group is greedy, so the last split is taken
headerPath(line) ==
  LET k == CHOOSE x \in headerSplits(line) : \A y \in headerSplits(line) : y <= x
  IN  SubSeq(line, k + 3, Len(line))

\* isAdditionLine without the exclusion of the +++ file marker
isAdditionLine_countsMarker(line) == startsWith(line, <<"+">>)

isAdditionLine(line) == startsWith(line, <<"+">>) /\ ~startsWith(line, <<"+","+","+">>)

isDeletionLine(line) == startsWith(line, <<"-">>) /\ ~startsWith(line, <<"-","-","-">>)

hasBreakingMarker(line) ==
  includes(line, <<"B","R","E","A","K","I","N","G"," ","C","H","A","N","G","E">>) \/ includes(line, <<"!",":">>)

\* one iteration of the loop over diffText.split('\n')
parseLine(acc, line) ==
  IF startsWith(line, <<"d","i","f","f"," ","-","-","g","i","t"," ">>) THEN
    IF headerSplits(line) # {}
    THEN [acc EXCEPT !.files = Append(@, headerPath(line))]
    ELSE acc
  ELSE IF startsWith(line, <<"n","e","w"," ","f","i","l","e"," ","m","o","d","e"," ">>) THEN
    [acc EXCEPT !.addedFiles = @ + 1]
  ELSE IF startsWith(line, <<"d","e","l","e","t","e","d"," ","f","i","l","e"," ","m","o","d","e"," ">>) THEN
    [acc EXCEPT !.deletedFiles = @ + 1]
  ELSE IF startsWith(line, <<"r","e","n","a","m","e"," ","f","r","o","m"," ">>) \/ startsWith(line, <<"r","e","n","a","m","e"," ","t","o"," ">>) THEN
    [acc EXCEPT !.renamedFiles = @ + 1]
  ELSE IF isAdditionLine(line) THEN
    LET text == toLowerCase(sliceFrom(line, 1))
    IN  [acc EXCEPT
           !.additions = @ + 1,
           !.hasBreakingHint = @ \/ hasBreakingMarker(line),
           !.featureSignals = @ + countKeywordHits(text, FEATURE_KEYWORDS),
           !.fixSignals = @ + countKeywordHits(text, FIX_KEYWORDS),
           !.refactorSignals = @ + countKeywordHits(text, REFACTOR_KEYWORDS),
           !.perfSignals = @ + countKeywordHits(text, PERF_KEYWORDS),
           !.styleSignals = @ + countKeywordHits(text, STYLE_KEYWORDS)
                              + (IF isStyleOnlyChange(text) THEN 1 ELSE 0)]
  ELSE IF isDeletionLine(line) THEN
    LET text == toLowerCase(sliceFrom(line, 1))
    IN  [acc EXCEPT
           !.deletions = @ + 1,
           !.hasBreakingHint = @ \/ hasBreakingMarker(line),
           !.fixSignals = @ + countKeywordHits(text, FIX_KEYWORDS),
           !.refactorSignals = @ + countKeywordHits(text, REFACTOR_KEYWORDS),
           !.perfSignals = @ + countKeywordHits(text, PERF_KEYWORDS),
           !.styleSignals = @ + countKeywordHits(text, STYLE_KEYWORDS)
                              + (IF isStyleOnlyChange(text) THEN 1 ELSE 0)]
  ELSE acc

RECURSIVE parseLines(_, _, _)
parseLines(acc, lines, i) ==
  IF i > Len(lines) THEN acc
  ELSE parseLines(parseLine(acc, lines[i]), lines, i + 1)

\* the returned record: the counters plus the four shape flags
withShapeFlags(acc) ==
  [files |-> acc.files,
   additions |-> acc.additions,
   deletions |-> acc.deletions,
   hasBreakingHint |-> acc.hasBreakingHint,
   hasTestFiles |-> \E i \in 1..Len(acc.files) : isTest(acc.files[i]),
   hasDocsFiles |-> \E i \in 1..Len(acc.files) : isDoc(acc.files[i]),
   hasConfigFiles |-> \E i \in 1..Len(acc.files) : isConfig(acc.files[i]),
   hasCodeFiles |-> \E i \in 1..Len(acc.files) : isCode(acc.files[i]),
   addedFiles |-> acc.addedFiles,
   deletedFiles |-> acc.deletedFiles,
   renamedFiles |-> acc.renamedFiles,
   featureSignals |-> acc.featureSignals,
   fixSignals |-> acc.fixSignals,
   refactorSignals |-> acc.refactorSignals,
   perfSignals |-> acc.perfSignals,
   styleSignals |-> acc.styleSignals]

parseGitDiff(text) ==
  withShapeFlags(parseLines(EmptyStats, split(text, "\n"), 1))


---------------------------------------------------------------------------
(* scoreTypes                                                              *)

allDocFiles(st) ==
  Len(st.files) > 0 /\ \A i \in 1..Len(st.files) : isDoc(st.files[i])

allTestFiles(st) ==
  Len(st.files) > 0 /\ \A i \in 1..Len(st.files) : isTest(st.files[i])

allConfigFiles(st) ==
  Len(st.files) > 0 /\ \A i \in 1..Len(st.files) : isConfig(st.files[i])

\* scoreTypes without the bonus for an empty file list
emptyFilesBonus_missing(st) == 0

\* if (stats.files.length === 0) inc('chore', 10)
emptyFilesBonus(st) == IF Len(st.files) = 0 THEN 10 ELSE 0

\* the documentation bonus mistyped as 2
docsBonus_small(st) == IF allDocFiles(st) THEN 2 ELSE 0

\* inc('docs', 12) when every file is a documentation file
docsBonus(st) == IF allDocFiles(st) THEN 12 ELSE 0

\* inc('test', 12) when every file is a test file
testBonus(st) == IF allTestFiles(st) THEN 12 ELSE 0

\* inc('chore', 7) when every file is a configuration file
configBonus(st) == IF allConfigFiles(st) THEN 7 ELSE 0

ciBonus(st) ==
  IF allConfigFiles(st)
     /\ \E i \in 1..Len(st.files) : includes(st.files[i], <<".","g","i","t","h","u","b","/">>)
  THEN 8 ELSE 0

buildBonus(st) ==
  IF allConfigFiles(st)
     /\ \E i \in 1..Len(st.files) :
          \/ includes(st.files[i], <<"p","a","c","k","a","g","e",".","j","s","o","n">>)
          \/ includes(st.files[i], <<"l","o","c","k">>)
          \/ includes(st.files[i], <<"d","o","c","k","e","r">>)
  THEN 8 ELSE 0

featSignalScore(st) ==
  st.featureSignals + st.addedFiles * 2
    + (IF st.additions > st.deletions THEN 1 ELSE 0)

fixSignalScore(st) ==
  st.fixSignals + (IF st.deletions > st.additions THEN 1 ELSE 0)

refactorSignalScore(st) ==
  st.refactorSignals + (IF st.renamedFiles > 0 THEN 3 ELSE 0)

\* deletions > additions * 2 with source files: inc('refactor', 2)
shrinkBonus(st) ==
  IF st.deletions > st.additions * 2 /\ st.hasCodeFiles THEN 2 ELSE 0

\* styleSignals > Math.max(3, additions + deletions / 3) with source files,
\* compared after multiplying both sides by three
styleBonus(st) ==
  IF /\ 3 * st.styleSignals > 9
     /\ 3 * st.styleSignals > 3 * st.additions + st.deletions
     /\ st.hasCodeFiles
  THEN 3 ELSE 0

\* the default guess made without looking at feat
defaultFixNudge_ignoresFeat(st) ==
  IF st.hasCodeFiles /\ fixSignalScore(st) = 0 THEN 1 ELSE 0

\* the default guess: fix and feat both still 0 with source files present
defaultFixNudge(st) ==
  IF st.hasCodeFiles /\ fixSignalScore(st) = 0 /\ featSignalScore(st) = 0
  THEN 1 ELSE 0

\* no shape flag set: inc('chore', 2)
metadataBonus(st) ==
  IF ~st.hasCodeFiles /\ ~st.hasDocsFiles /\ ~st.hasConfigFiles /\ ~st.hasTestFiles
  THEN 2 ELSE 0

\* the Map of scores after all inc() calls
typeScores(st) ==
  [feat |-> featSignalScore(st),
   fix |-> fixSignalScore(st) + defaultFixNudge(st),
   refactor |-> refactorSignalScore(st) + shrinkBonus(st),
   docs |-> docsBonus(st),
   test |-> testBonus(st),
   chore |-> emptyFilesBonus(st) + configBonus(st) + metadataBonus(st),
   build |-> buildBonus(st),
   ci |-> ciBonus(st),
   perf |-> st.perfSignals * 2,
   style |-> st.styleSignals + styleBonus(st)]

\* the reason strings, kept as the values they interpolate
typeReasons(st) ==
  [feat |-> <<"featureSignals", st.featureSignals, "addedFiles", st.addedFiles>>,
   fix |-> <<"fixSignals", st.fixSignals, "deletions", st.deletions>>,
   refactor |-> <<"refactorSignals", st.refactorSignals, "renamedFiles", st.renamedFiles>>,
   docs |-> <<"hasDocsFiles", st.hasDocsFiles>>,
   test |-> <<"hasTestFiles", st.hasTestFiles>>,
   chore |-> <<"hasConfigFiles", st.hasConfigFiles>>,
   build |-> <<"config/build files detected">>,
   ci |-> <<"ci config detected">>,
   perf |-> <<"perfSignals", st.perfSignals>>,
   style |-> <<"styleSignals", st.styleSignals>>]

\* Array.from(scores.entries()).map(...): insertion order of the Map
typeEntries(st) ==
  LET scores == typeScores(st)
      reasons == typeReasons(st)
  IN  asSeq([i \in 1..Len(ConventionalTypes) |->
               [type |-> ConventionalTypes[i],
                score |-> scores[ConventionalTypes[i]],
                reason |-> reasons[ConventionalTypes[i]]]])

\* entries.sort((a, b) => b.score - a.score): Array.prototype.sort is stable,
\* so entry i lands after the entries that score more and the equal ones before it
\* an unstable sort: equal scores swap their order
sortedPosition_tiesReversed(entries, i) ==
  1 + Cardinality({j \in 1..Len(entries) :
                     \/ entries[j].score > entries[i].score
                     \/ entries[j].score = entries[i].score /\ j > i})

sortedPosition(entries, i) ==
  1 + Cardinality({j \in 1..Len(entries) :
                     \/ entries[j].score > entries[i].score
                     \/ entries[j].score = entries[i].score /\ j < i})

sortByScoreDesc(entries) ==
  asSeq([p \in 1..Len(entries) |->
           entries[CHOOSE i \in 1..Len(entries) : sortedPosition(entries, i) = p]])

\* the whole list, whatever n
sliceTo_whole(items, n) == items

\* items.slice(0, n) for an integer n: a negative n counts from the end
sliceTo(items, n) ==
  LET last == IF n < 0 THEN Len(items) + n
              ELSE IF n < Len(items) THEN n ELSE Len(items)
  IN  SubSeq(items, 1, IF last < 0 THEN 0 ELSE last)

TopTypes == 4

scoreTypes(st) == sliceTo(sortByScoreDesc(typeEntries(st)), TopTypes)

---------------------------------------------------------------------------
(* Scope and subject heuristics, analyzeDiff                               *)

isNonEmpty(s) == s # <<>>

\* the characters replace(/[^a-z0-9_-]/g, '') keeps
isScopeChar(c) == c \in LowerChars \cup DigitChars \cup {"_", "-"}

\* name.replace(/\.[^.]+$/, ''): the last dot and what follows it, if anything follows
stripExtension(name) ==
  LET idx == lastIndexOf(name, ".")
  IN  IF idx >= 0 /\ idx + 1 < Len(name) THEN SubSeq(name, 1, idx) ELSE name

\* Set.prototype.add on a Set kept in insertion order
setAdd(items, x) ==
  IF \E i \in 1..Len(items) : items[i] = x THEN items ELSE Append(items, x)

\* one iteration of the loop of uniqueScopes
scopeStep(scopes, file) ==
  LET parts == SelectSeq(split(file, "/"), isNonEmpty)
  IN  IF Len(parts) > 1 /\ parts[1] # <<"s","r","c">> /\ parts[1] # <<"l","i","b">>
      THEN setAdd(scopes, SelectSeq(toLowerCase(parts[1]), isScopeChar))
      ELSE LET filename == IF Len(parts) > 0 THEN parts[Len(parts)] ELSE file
               stem == SelectSeq(toLowerCase(stripExtension(filename)), isScopeChar)
           IN  IF stem # <<>> THEN setAdd(scopes, sliceTo(stem, 30)) ELSE scopes

RECURSIVE scopeLoop(_, _, _)
scopeLoop(scopes, files, i) ==
  IF i > Len(files) THEN scopes
  ELSE scopeLoop(scopeStep(scopes, files[i]), files, i + 1)

uniqueScopes(files) ==
  sliceTo(SelectSeq(scopeLoop(<<>>, files, 1), isNonEmpty), 5)

\* f.split('/')[0] || 'root'
rootOf(file) ==
  LET first == split(file, "/")[1]
  IN  IF first = <<>> THEN <<"r","o","o","t">> ELSE first

summarizeTarget(files) ==
  IF Len(files) = 0 THEN <<"c","o","d","e","b","a","s","e">>
  ELSE IF Len(files) = 1 THEN
    LET parts == split(files[1], "/")
    IN  toLowerCase(stripExtension(parts[Len(parts)]))
  ELSE IF \A i \in 1..Len(files) : rootOf(files[i]) = rootOf(files[1])
  THEN toLowerCase(rootOf(files[1]))
  ELSE <<"m","u","l","t","i","p","l","e","-","m","o","d","u","l","e","s">>

buildSubjectHints(st) ==
  LET target == summarizeTarget(st.files)
  IN  << <<"u","p","d","a","t","e"," ">> \o target \o <<" ","b","e","h","a","v","i","o","r">>,
         <<"a","d","d"," ">> \o target \o <<" ","s","u","p","p","o","r","t">>,
         <<"r","e","f","a","c","t","o","r"," ">> \o target \o <<" ","i","m","p","l","e","m","e","n","t","a","t","i","o","n">>,
         <<"o","p","t","i","m","i","z","e"," ">> \o target \o <<" ","p","e","r","f","o","r","m","a","n","c","e">> >>

\* what analyzeDiff builds from the parsed statistics
analysisOf(st) ==
  [stats |-> st,
   scopeCandidates |-> uniqueScopes(st.files),
   recommendedTypes |-> scoreTypes(st),
   subjectHints |-> buildSubjectHints(st)]

analyzeDiff(text) == analysisOf(parseGitDiff(text))

---------------------------------------------------------------------------
(* Conventional Commit header: /^([a-z]+)(\(([^)]+)\))?(!)?:\s+(.+)$/i      *)

Null == "null"

LetterChars == UpperChars \cup LowerChars

\* the length of the longest prefix of s made of characters of S
prefixLen(s, S) ==
  IF \A i \in 1..Len(s) : s[i] \in S THEN Len(s)
  ELSE (CHOOSE i \in 1..Len(s) : s[i] \notin S /\ \A j \in 1..(i - 1) : s[j] \in S) - 1

\* the first position of p in s, 0 when absent
firstIndexOf(s, p) ==
  IF includes(s, p)
  THEN CHOOSE i \in 1..Len(s) : hasAt(s, p, i) /\ \A j \in 1..(i - 1) : ~hasAt(s, p, j)
  ELSE 0

\* The match of the header pattern is a record [ok, type, scope, bang, subject].
\* Each quantifier has one way to match: the letters end at a non-letter, the
\* scope at the first ")", and \s+ gives back one character only when nothing
\* else is left for (.+).
noHeader ==
  [ok |-> FALSE, type |-> <<>>, scope |-> <<>>, bang |-> FALSE, subject |-> <<>>]

\* \s+(.+)$ on what follows the colon
headerSubject(type, scope, bang, afterColon) ==
  LET w == prefixLen(afterColon, SpaceChars)
      rest == SubSeq(afterColon, w + 1, Len(afterColon))
      subject == IF rest # <<>> THEN rest
                 ELSE IF w >= 2 THEN <<afterColon[w]>> ELSE <<>>
  IN  IF /\ w >= 1
         /\ subject # <<>>
         /\ \A i \in 1..Len(subject) : subject[i] \notin LineTerminators
      THEN [ok |-> TRUE, type |-> type, scope |-> scope, bang |-> bang,
            subject |-> subject]
      ELSE noHeader

\* (!)?: on what follows the scope
headerColon(type, scope, afterScope) ==
  LET bang == startsWith(afterScope, <<"!">>)
      afterBang == IF bang THEN Tail(afterScope) ELSE afterScope
  IN  IF startsWith(afterBang, <<":">>)
      THEN headerSubject(type, scope, bang, Tail(afterBang))
      ELSE noHeader

\* (\(([^)]+)\))? on what follows the type
headerScope(type, afterType) ==
  IF ~startsWith(afterType, <<"(">>) THEN headerColon(type, <<>>, afterType)
  ELSE LET close == firstIndexOf(afterType, <<")">>)
       IN  IF close >= 3
           THEN headerColon(type, SubSeq(afterType, 2, close - 1),
                            SubSeq(afterType, close + 1, Len(afterType)))
           ELSE noHeader

parseHeader(s) ==
  LET n == prefixLen(s, LetterChars)
  IN  IF n >= 1 THEN headerScope(SubSeq(s, 1, n), SubSeq(s, n + 1, Len(s)))
      ELSE noHeader

\* the text of each type label
TypeText ==
  [feat |-> <<"f","e","a","t">>, fix |-> <<"f","i","x">>, refactor |-> <<"r","e","f","a","c","t","o","r">>,
   docs |-> <<"d","o","c","s">>, test |-> <<"t","e","s","t">>, chore |-> <<"c","h","o","r","e">>,
   build |-> <<"b","u","i","l","d">>, ci |-> <<"c","i">>, perf |-> <<"p","e","r","f">>, style |-> <<"s","t","y","l","e">>]

inferConventionalType(subject) ==
  LET match == parseHeader(trim(subject))
      maybeType == toLowerCase(match.type)
  IN  IF match.ok /\ \E i \in 1..Len(ConventionalTypes) :
                       TypeText[ConventionalTypes[i]] = maybeType
      THEN ConventionalTypes[CHOOSE i \in 1..Len(ConventionalTypes) :
                               TypeText[ConventionalTypes[i]] = maybeType]
      ELSE Null

---------------------------------------------------------------------------
(* Correlation with recent commits                                         *)

\* the characters replace(/[^a-z0-9/_-]+/g, ' ') keeps
TokenChars == LowerChars \cup DigitChars \cup {"/", "_", "-"}

\* filter((token) => token.length >= 3 && !TOKEN_STOPWORDS.has(token))
keepToken(token) == Len(token) >= 3 /\ token \notin TOKEN_STOPWORDS

\* the run of token characters of lc that starts at position i
tokenAt(lc, i) ==
  SubSeq(lc, i, i + prefixLen(SubSeq(lc, i, Len(lc)), TokenChars) - 1)

\* the runs of token characters are what split(/\s+/) gives once every other
\* run of characters is a space
toTokenSet(value) ==
  LET lc == toLowerCase(value)
      starts == {i \in 1..Len(lc) :
                   lc[i] \in TokenChars /\ (i = 1 \/ lc[i - 1] \notin TokenChars)}
  IN  {token \in {tokenAt(lc, i) : i \in starts} : keepToken(token)}

\* a ratio n / d, d > 0, in place of the double the source computes
jaccard(a, b) ==
  IF Cardinality(a) = 0 \/ Cardinality(b) = 0 THEN [n |-> 0, d |-> 1]
  ELSE LET intersection == Cardinality(a \cap b)
           union == Cardinality(a) + Cardinality(b) - intersection
       IN  IF union > 0 THEN [n |-> intersection, d |-> union] ELSE [n |-> 0, d |-> 1]

Range(items) == {items[i] : i \in 1..Len(items)}

\* the ratio with two empty lists taken as the same list
fileOverlapRatio_emptyIsFull(currentFiles, previousFiles) ==
  IF Len(currentFiles) = 0 /\ Len(previousFiles) = 0 THEN [n |-> 1, d |-> 1]
  ELSE IF Len(currentFiles) = 0 \/ Len(previousFiles) = 0 THEN [n |-> 0, d |-> 1]
  ELSE [n |-> 2 * Cardinality(Range(currentFiles) \cap Range(previousFiles)),
        d |-> Cardinality(Range(currentFiles)) + Cardinality(Range(previousFiles))]

\* the ratio taken on the lengths of the lists, repeated paths counted
fileOverlapRatio_byLength(currentFiles, previousFiles) ==
  IF Len(currentFiles) = 0 \/ Len(previousFiles) = 0 THEN [n |-> 0, d |-> 1]
  ELSE [n |-> 2 * Cardinality(Range(currentFiles) \cap Range(previousFiles)),
        d |-> Len(currentFiles) + Len(previousFiles)]

fileOverlapRatio(currentFiles, previousFiles) ==
  IF Len(currentFiles) = 0 \/ Len(previousFiles) = 0 THEN [n |-> 0, d |-> 1]
  ELSE LET current == Range(currentFiles)
           previous == Range(previousFiles)
           intersection == Cardinality(current \cap previous)
       IN  [n |-> 2 * intersection, d |-> Cardinality(current) + Cardinality(previous)]

clampToScore(value) ==
  IF value.n < 0 THEN [n |-> 0, d |-> 1]
  ELSE IF value.n > value.d THEN [n |-> 1, d |-> 1]
  ELSE value

\* value.toFixed(digits) as a count of 10^-digits: the nearest, the larger on a tie
toFixed(value, digits) ==
  LET scale == IF digits = 2 THEN 100 ELSE 1000
  IN  (2 * scale * value.n + value.d) \div (2 * value.d)

preferredType(an) ==
  IF Len(an.recommendedTypes) > 0 THEN an.recommendedTypes[1].type ELSE Null

\* word boundary of s between the positions i and i + 1
wordBoundary(s, i) ==
  (i >= 1 /\ i <= Len(s) /\ s[i] \in WordChars)
    # (i + 1 >= 1 /\ i + 1 <= Len(s) /\ s[i + 1] \in WordChars)

\* /\bword\b/i somewhere in the lower-cased text lc
hasWord(lc, word) ==
  \E i \in 1..(Len(lc) - Len(word) + 1) :
    /\ hasAt(lc, word, i)
    /\ wordBoundary(lc, i - 1)
    /\ wordBoundary(lc, i + Len(word) - 1)

\* /\bbump\s+v?\d/i
hasBumpNumber(lc) ==
  \E i \in 1..(Len(lc) - 3) :
    /\ hasAt(lc, <<"b","u","m","p">>, i)
    /\ wordBoundary(lc, i - 1)
    /\ LET rest == SubSeq(lc, i + 4, Len(lc))
           w == prefixLen(rest, SpaceChars)
           tail == SubSeq(rest, w + 1, Len(rest))
       IN  /\ w >= 1
           /\ \/ Len(tail) >= 1 /\ tail[1] \in DigitChars
              \/ Len(tail) >= 2 /\ tail[1] = "v" /\ tail[2] \in DigitChars

\* no subject is noise
isLikelyNoiseCommit_never(subject) == FALSE

\* NOISE_COMMIT_HINTS.some((pattern) => pattern.test(trimmed))
isLikelyNoiseCommit(subject) ==
  LET lc == toLowerCase(trim(subject))
  IN  \/ startsWith(lc, <<"m","e","r","g","e">>) /\ wordBoundary(lc, 5)
      \/ startsWith(lc, <<"r","e","l","e","a","s","e">>) /\ wordBoundary(lc, 7)
      \/ startsWith(lc, <<"r","e","v","e","r","t">>) /\ wordBoundary(lc, 6)
      \/ startsWith(lc, <<"c","h","o","r","e","(","r","e","l","e","a","s","e",")">>)
      \/ hasWord(lc, <<"v","e","r","s","i","o","n"," ","b","u","m","p">>)
      \/ hasWord(lc, <<"b","u","m","p"," ","v","e","r","s","i","o","n">>)
      \/ hasBumpNumber(lc)

buildCurrentContextTokens(an) ==
  LET currentType == IF preferredType(an) = Null THEN <<>>
                     ELSE TypeText[preferredType(an)]
      source == join(<<currentType>> \o an.scopeCandidates \o an.subjectHints
                       \o an.stats.files, <<" ">>)
  IN  toTokenSet(source)

\* the three components of a commit's score
commitComponents(an, currentTokens, commit) ==
  LET type == inferConventionalType(commit.subject)
  IN  [overlap |-> fileOverlapRatio(an.stats.files, commit.files),
       tokenSimilarity |-> jaccard(currentTokens, toTokenSet(commit.subject)),
       typeMatch |-> IF preferredType(an) # Null /\ type = preferredType(an)
                     THEN 1 ELSE 0]

\* the combined score with the weights 0.5, 0.3 and 0.2
combinedScore_otherWeights(parts) ==
  clampToScore(
    [n |-> 50 * parts.overlap.n * parts.tokenSimilarity.d
             + 30 * parts.tokenSimilarity.n * parts.overlap.d
             + 20 * parts.typeMatch * parts.overlap.d * parts.tokenSimilarity.d,
     d |-> 100 * parts.overlap.d * parts.tokenSimilarity.d])

\* clampToScore(overlap * 0.55 + tokenSimilarity * 0.25 + typeMatch * 0.2)
combinedScore(parts) ==
  clampToScore(
    [n |-> 55 * parts.overlap.n * parts.tokenSimilarity.d
             + 25 * parts.tokenSimilarity.n * parts.overlap.d
             + 20 * parts.typeMatch * parts.overlap.d * parts.tokenSimilarity.d,
     d |-> 100 * parts.overlap.d * parts.tokenSimilarity.d])

\* no score is below the threshold
belowThreshold_never(score, minScore) == FALSE

\* score < minCorrelationScore, the threshold in ten-thousandths
belowThreshold(score, minScore) == score.n * 10000 < minScore * score.d

\* the commit is skipped by the loop
skipsCommit(an, currentTokens, commit, minScore) ==
  \/ isLikelyNoiseCommit(commit.subject)
  \/ belowThreshold(combinedScore(commitComponents(an, currentTokens, commit)), minScore)

relatedEntry(an, currentTokens, commit) ==
  LET parts == commitComponents(an, currentTokens, commit)
  IN  [hash |-> commit.hash,
       subject |-> commit.subject,
       score |-> toFixed(combinedScore(parts), 3),
       reason |-> [fileOverlap |-> toFixed(parts.overlap, 2),
                   lexicalSimilarity |-> toFixed(parts.tokenSimilarity, 2),
                   typeMatch |-> parts.typeMatch]]

RECURSIVE relatedLoop(_, _, _, _, _, _)
relatedLoop(an, currentTokens, commits, minScore, i, acc) ==
  IF i > Len(commits) THEN acc
  ELSE relatedLoop(an, currentTokens, commits, minScore, i + 1,
                   IF skipsCommit(an, currentTokens, commits[i], minScore) THEN acc
                   ELSE Append(acc, relatedEntry(an, currentTokens, commits[i])))

findRelatedRecentCommits(an, commits, minScore, maxCount) ==
  LET currentTokens == buildCurrentContextTokens(an)
  IN  sliceTo(sortByScoreDesc(relatedLoop(an, currentTokens, commits, minScore, 1, <<>>)),
              maxCount)

---------------------------------------------------------------------------
(* validateTone                                                            *)

\* match?.[3] ?? message: the pattern is the header pattern less one group
stripConventionalPrefix(text) ==
  IF parseHeader(text).ok THEN parseHeader(text).subject ELSE text

\* lowerCaseFirst leaving the first character as it is
lowerCaseFirst_keep(value) == value

lowerCaseFirst(value) ==
  IF value = <<>> THEN value
  ELSE <<lowerChar(value[1])>> \o sliceFrom(value, 1)

\* PunctuationChars without the exclamation mark
PunctuationChars_noBang == {".", "?"}

PunctuationChars == {".", "!", "?"}

\* value.replace(/[.!?]+$/g, '')
stripTrailingPunctuation(value) ==
  IF \A i \in 1..Len(value) : value[i] \in PunctuationChars THEN <<>>
  ELSE SubSeq(value, 1,
              CHOOSE i \in 1..Len(value) :
                /\ value[i] \notin PunctuationChars
                /\ \A j \in (i + 1)..Len(value) : value[j] \in PunctuationChars)

keptChar(c) == c # ""

\* value.replace(/\s+/g, ' ')
collapseWhitespace(value) ==
  SelectSeq([i \in 1..Len(value) |->
               IF value[i] \notin SpaceChars THEN value[i]
               ELSE IF i = 1 \/ value[i - 1] \notin SpaceChars THEN " "
               ELSE ""],
            keptChar)

RECURSIVE replaceAllIgnoreCase(_, _, _)
\* value.replace(new RegExp(pattern, 'ig'), replacement) for a pattern of
\* lower-case letters and spaces: the matches from the left, none overlapping
replaceAllIgnoreCase(value, pattern, replacement) ==
  LET i == firstIndexOf(toLowerCase(value), pattern)
  IN  IF i = 0 THEN value
      ELSE SubSeq(value, 1, i - 1) \o replacement
             \o replaceAllIgnoreCase(SubSeq(value, i + Len(pattern), Len(value)),
                                     pattern, replacement)

RECURSIVE replaceVague(_, _)
\* the loop over VAGUE_SUBJECT_HINTS from the i-th hint on
replaceVague(next, i) ==
  IF i > Len(VAGUE_SUBJECT_HINTS) THEN next
  ELSE replaceVague(
         IF includes(toLowerCase(next), VAGUE_SUBJECT_HINTS[i])
         THEN replaceAllIgnoreCase(next, VAGUE_SUBJECT_HINTS[i],
                                   <<"i","m","p","l","e","m","e","n","t","a","t","i","o","n"," ","d","e","t","a","i","l","s">>)
         ELSE next,
         i + 1)

normalizeSubject(subject) ==
  lowerCaseFirst(
    replaceVague(collapseWhitespace(stripTrailingPunctuation(trim(subject))), 1))

\* if (!type) continue
hasType(type) == type # Null

\* the types of the subjects that have one, in the order of the subjects
inferredTypes(subjects) ==
  SelectSeq(asSeq([i \in 1..Len(subjects) |-> inferConventionalType(subjects[i])]),
            hasType)

\* counts.get(type)
typeCount(types, type) == Cardinality({i \in 1..Len(types) : types[i] = type})

\* the position of the type in the insertion order of the Map
firstOf(types, type) ==
  CHOOSE i \in 1..Len(types) : types[i] = type /\ \A j \in 1..(i - 1) : types[j] # type

\* the first type in insertion order that no other type outnumbers
bestType(types) ==
  IF types = <<>> THEN Null
  ELSE CHOOSE type \in Range(types) :
         \A other \in Range(types) :
           \/ typeCount(types, other) < typeCount(types, type)
           \/ /\ typeCount(types, other) = typeCount(types, type)
              /\ firstOf(types, type) <= firstOf(types, other)

mostFrequentType(subjects) == bestType(inferredTypes(subjects))

DivergenceText ==
  [feat |-> "type diverges from related history (feat)",
   fix |-> "type diverges from related history (fix)",
   refactor |-> "type diverges from related history (refactor)",
   docs |-> "type diverges from related history (docs)",
   test |-> "type diverges from related history (test)",
   chore |-> "type diverges from related history (chore)",
   build |-> "type diverges from related history (build)",
   ci |-> "type diverges from related history (ci)",
   perf |-> "type diverges from related history (perf)",
   style |-> "type diverges from related history (style)"]

\* applied whenever the score is below the threshold
appliedFlag_scoreOnly(toneScore, minScore, suggestedRewrite, trimmed) ==
  toneScore < minScore

\* toneScore < minToneScore && suggestedRewrite !== trimmed
appliedFlag(toneScore, minScore, suggestedRewrite, trimmed) ==
  toneScore < minScore /\ suggestedRewrite # trimmed

\* the findings with the divergence rule applied to a message without type
toneFindings_divergesUntyped(parsed, type, subject, dominantType) ==
  (IF ~parsed.ok
   THEN <<[text |-> "header is not in Conventional Commit format", penalty |-> 350]>>
   ELSE <<>>)
  \o (IF Len(subject) < 8 \/ Len(subject) > 72
      THEN <<[text |-> "subject length should stay between 8 and 72 characters",
              penalty |-> 120]>>
      ELSE <<>>)
  \o (IF subject # <<>> /\ subject[Len(subject)] \in PunctuationChars
      THEN <<[text |-> "subject should not end with punctuation", penalty |-> 80]>>
      ELSE <<>>)
  \o (IF \E i \in 1..Len(VAGUE_SUBJECT_HINTS) :
           includes(toLowerCase(subject), VAGUE_SUBJECT_HINTS[i])
      THEN <<[text |-> "subject contains vague wording", penalty |-> 200]>>
      ELSE <<>>)
  \o (IF subject # <<>> /\ subject[1] \in UpperChars
      THEN <<[text |-> "subject should start with lowercase verb", penalty |-> 50]>>
      ELSE <<>>)
  \o (IF dominantType # Null /\ TypeText[dominantType] # type
      THEN <<[text |-> DivergenceText[dominantType], penalty |-> 150]>>
      ELSE <<>>)

\* the violations found, each with its penalty in thousandths, in the order
\* in which validateTone tests for them
toneFindings(parsed, type, subject, dominantType) ==
  (IF ~parsed.ok
   THEN <<[text |-> "header is not in Conventional Commit format", penalty |-> 350]>>
   ELSE <<>>)
  \o (IF Len(subject) < 8 \/ Len(subject) > 72
      THEN <<[text |-> "subject length should stay between 8 and 72 characters",
              penalty |-> 120]>>
      ELSE <<>>)
  \o (IF subject # <<>> /\ subject[Len(subject)] \in PunctuationChars
      THEN <<[text |-> "subject should not end with punctuation", penalty |-> 80]>>
      ELSE <<>>)
  \o (IF \E i \in 1..Len(VAGUE_SUBJECT_HINTS) :
           includes(toLowerCase(subject), VAGUE_SUBJECT_HINTS[i])
      THEN <<[text |-> "subject contains vague wording", penalty |-> 200]>>
      ELSE <<>>)
  \o (IF subject # <<>> /\ subject[1] \in UpperChars
      THEN <<[text |-> "subject should start with lowercase verb", penalty |-> 50]>>
      ELSE <<>>)
  \o (IF dominantType # Null /\ type # <<>> /\ TypeText[dominantType] # type
      THEN <<[text |-> DivergenceText[dominantType], penalty |-> 150]>>
      ELSE <<>>)

RECURSIVE sumPenalties(_, _)
sumPenalties(findings, i) ==
  IF i > Len(findings) THEN 0
  ELSE findings[i].penalty + sumPenalties(findings, i + 1)

\* the rewrite with the breaking-change marker of the header kept
rewriteOf_keepsMarker(parsed, type, scope, normalizedSubject) ==
  LET normalizedScope == IF scope # <<>> THEN <<"(">> \o scope \o <<")">> ELSE <<>>
      marker == IF parsed.bang THEN <<"!">> ELSE <<>>
  IN  IF parsed.ok
      THEN type \o normalizedScope \o marker \o <<":"," ">> \o normalizedSubject
      ELSE <<"c","h","o","r","e",":"," ">> \o normalizedSubject

\* type(scope): subject with the parsed type and scope, chore: subject otherwise
rewriteOf(parsed, type, scope, normalizedSubject) ==
  LET normalizedScope == IF scope # <<>> THEN <<"(">> \o scope \o <<")">> ELSE <<>>
  IN  IF parsed.ok THEN type \o normalizedScope \o <<":"," ">> \o normalizedSubject
      ELSE <<"c","h","o","r","e",":"," ">> \o normalizedSubject

\* the record validateTone returns; the scores and the threshold in thousandths
toneResult(trimmed, findings, suggestedRewrite, minScore) ==
  LET score == 1000 - sumPenalties(findings, 1)
      toneScore == toFixed(clampToScore([n |-> score, d |-> 1000]), 3)
  IN  [toneScore |-> toneScore,
       violations |-> asSeq([i \in 1..Len(findings) |-> findings[i].text]),
       suggestedRewrite |-> suggestedRewrite,
       applied |-> appliedFlag(toneScore, minScore, suggestedRewrite, trimmed)]

\* validateTone once the message is trimmed and matched against the header
\* pattern
toneOfParsed(trimmed, parsed, subjects, minScore) ==
  LET type == IF parsed.ok THEN toLowerCase(parsed.type) ELSE <<>>
      scope == IF parsed.ok THEN trim(parsed.scope) ELSE <<>>
      subject == IF parsed.ok THEN trim(parsed.subject) ELSE trimmed
  IN  toneResult(trimmed,
                 toneFindings(parsed, type, subject, mostFrequentType(subjects)),
                 rewriteOf(parsed, type, scope,
                           normalizeSubject(stripConventionalPrefix(trimmed))),
                 minScore)

\* validateTone(message, { relatedSubjects, minToneScore })
validateTone(msg, subjects, minScore) ==
  toneOfParsed(trim(msg), parseHeader(trim(msg)), subjects, minScore)

---------------------------------------------------------------------------
(* Inputs of the diff parser: texts of up to MaxLines lines                *)

MaxLines == 3

DiffLines ==
  { <<>>,
    <<"d","i","f","f"," ","-","-","g","i","t"," ","a","/","x",".","m","d"," ","b","/","x",".","m","d">>,
    <<"d","i","f","f"," ","-","-","g","i","t"," ","a","/","s","r","c","/","a","p","p",".","t","s"," ","b","/","s","r","c","/","a","p","p",".","t","s">>,
    <<"d","i","f","f"," ","-","-","g","i","t"," ","x",".","m","d">>,
    <<"-","-","-"," ","a","/","x",".","m","d">>,
    <<"+","+","+"," ","b","/","x",".","m","d">>,
    <<"+","h","e","l","l","o">>,
    <<"+">>,
    <<"+","+">>,
    <<"-","f","i","x",":"," ","a","d","d"," ","n","e","w"," ","c","a","c","h","e">>,
    <<"-","-">>,
    <<" ","+","c","o","n","t","e","x","t">> }

SeqsUpTo(S, n) == UNION {[1..k -> S] : k \in 0..n}

\* every text whose lines are DiffLines, with and without a final newline
DiffTexts ==
  {join(ls, <<"\n">>) : ls \in SeqsUpTo(DiffLines, MaxLines)}

---------------------------------------------------------------------------
(* Inputs of the type scorer: the statistics parseGitDiff can return       *)

MaxFiles == 2

FilePool ==
  { <<"R","E","A","D","M","E",".","m","d">>,
    <<"d","o","c","s","/","t","e","s","t","-","p","l","a","n",".","m","d">>,
    <<"s","r","c","/","a","p","p",".","t","s">>,
    <<"s","r","c","/","a","p","p",".","t","e","s","t",".","t","s">>,
    <<".","g","i","t","h","u","b","/","w","o","r","k","f","l","o","w","s","/","c","i",".","y","m","l">>,
    <<"p","a","c","k","a","g","e",".","j","s","o","n">>,
    <<"M","a","k","e","f","i","l","e">> }

FileLists == SeqsUpTo(FilePool, MaxFiles)

\* the counters of a parse; a signal needs a changed line that holds its keywords
\* (at most Len(keywords) hits a line, one more for a style-only line)
CounterInputs ==
  { c \in [additions : {0, 13}, deletions : {0, 3},
           hasBreakingHint : {FALSE},
           addedFiles : {0, 6}, deletedFiles : {0}, renamedFiles : {0},
           featureSignals : {0, 1}, fixSignals : {0, 1},
           refactorSignals : {0}, perfSignals : {0, 7},
           styleSignals : {0, 13}] :
      /\ c.featureSignals <= Len(FEATURE_KEYWORDS) * c.additions
      /\ c.fixSignals <= Len(FIX_KEYWORDS) * (c.additions + c.deletions)
      /\ c.refactorSignals <= Len(REFACTOR_KEYWORDS) * (c.additions + c.deletions)
      /\ c.perfSignals <= Len(PERF_KEYWORDS) * (c.additions + c.deletions)
      /\ c.styleSignals <= (Len(STYLE_KEYWORDS) + 1) * (c.additions + c.deletions) }

\* the record parseGitDiff returns for a file list and counters
statsOf(files, c) == withShapeFlags([files |-> files] @@ c)

StatsInputs == {statsOf(files, c) : files \in FileLists, c \in CounterInputs}

---------------------------------------------------------------------------
(* Inputs of the correlation                                               *)

MaxCommits == 2

\* one parse of a feature change, on each file list
CorrelateCounters ==
  [additions |-> 13, deletions |-> 0, hasBreakingHint |-> FALSE,
   addedFiles |-> 0, deletedFiles |-> 0, renamedFiles |-> 0,
   featureSignals |-> 1, fixSignals |-> 0, refactorSignals |-> 0,
   perfSignals |-> 0, styleSignals |-> 0]

CorrelateFiles ==
  { <<>>,
    << <<"s","r","c","/","b","u","m","p",".","t","s">> >>,
    << <<"s","r","c","/","b","u","m","p",".","t","s">>, <<"R","E","A","D","M","E",".","m","d">>, <<"s","r","c","/","b","u","m","p",".","t","s">> >> }

AnalysisInputs == {analysisOf(statsOf(files, CorrelateCounters)) : files \in CorrelateFiles}

commitOf(hash, subject, files) ==
  [hash |-> hash, subject |-> subject, files |-> files]

\* subjects that match a noise pattern, one at least for each pattern
NoiseCommits ==
  { commitOf("n1", <<"M","e","r","g","e"," ","b","r","a","n","c","h"," ","'","m","a","i","n","'"," ","i","n","t","o"," ","b","u","m","p">>, << <<"s","r","c","/","b","u","m","p",".","t","s">> >>),
    commitOf("n2", <<"r","e","l","e","a","s","e",":"," ","b","u","m","p"," ","s","u","p","p","o","r","t">>, << <<"R","E","A","D","M","E",".","m","d">> >>),
    commitOf("n3", <<"R","e","v","e","r","t"," ","\"","f","e","a","t",":"," ","b","u","m","p"," ","s","u","p","p","o","r","t","\"">>, << <<"s","r","c","/","b","u","m","p",".","t","s">> >>),
    commitOf("n4", <<"c","h","o","r","e","(","r","e","l","e","a","s","e",")",":"," ","1",".","2",".","0">>, <<>>),
    commitOf("n5", <<"f","e","a","t","(","b","u","m","p",")",":"," ","v","e","r","s","i","o","n"," ","b","u","m","p"," ","s","u","p","p","o","r","t">>,
             << <<"s","r","c","/","b","u","m","p",".","t","s">>, <<"s","r","c","/","b","u","m","p",".","t","s">> >>),
    commitOf("n6", <<"f","e","a","t",":"," ","B","u","m","p"," ","V","e","r","s","i","o","n">>, << <<"R","E","A","D","M","E",".","m","d">>, <<"s","r","c","/","b","u","m","p",".","t","s">> >>),
    commitOf("n7", <<"f","e","a","t",":"," ","b","u","m","p"," ","2"," ","s","r","c","/","b","u","m","p"," ","b","e","h","a","v","i","o","r"," ","s","u","p","p","o","r","t"," ","r","e","f","a","c","t","o","r"," ","i","m","p","l","e","m","e","n","t","a","t","i","o","n"," ","o","p","t","i","m","i","z","e"," ","p","e","r","f","o","r","m","a","n","c","e">>,
             << <<"s","r","c","/","b","u","m","p",".","t","s">> >>) }

OrdinaryCommits ==
  { commitOf("g1", <<"f","e","a","t","(","b","u","m","p",")",":"," ","a","d","d"," ","b","u","m","p"," ","s","u","p","p","o","r","t">>, << <<"s","r","c","/","b","u","m","p",".","t","s">> >>),
    commitOf("g2", <<"m","e","r","g","e","d"," ","b","u","m","p"," ","b","e","h","a","v","i","o","r"," ","c","l","e","a","n","u","p">>, << <<"s","r","c","/","b","u","m","p",".","t","s">>, <<"R","E","A","D","M","E",".","m","d">> >>),
    commitOf("g3", <<"c","h","o","r","e",":"," ","i","n","i","t","i","a","l"," ","c","o","m","m","i","t">>, <<>>),
    commitOf("g4", <<"f","e","a","t",":"," ","b","u","m","p"," ","s","u","p","p","o","r","t">>,
             << <<"R","E","A","D","M","E",".","m","d">>, <<"s","r","c","/","b","u","m","p",".","t","s">>, <<"R","E","A","D","M","E",".","m","d">> >>) }

CommitPool == NoiseCommits \cup OrdinaryCommits

CommitLists == SeqsUpTo(CommitPool, MaxCommits)

\* thresholds in ten-thousandths: none, the default 0.65, and 0.8333
MinScores == {0, 6500, 8333}

MaxRelatedInputs == {0, 1, 3}

---------------------------------------------------------------------------
(* Inputs of the tone validation                                           *)

MaxSubjects == 2

\* messages with and without a header, a scope, surrounding blanks, vague
\* words, final punctuation, a capital, a short and a long subject, a vague
\* word whose replacement runs into the letters after it, a message without
\* header that breaks every rule on the subject
Messages ==
  { <<>>,
    <<".",".",".",".",".",".",".",".">>,
    <<"F","i","x"," ","s","t","u","f","f",".">>,
    <<"f","e","a","t","(","a","p","i",")",":"," ","a","d","d"," ","p","a","r","s","e","r"," ","s","u","p","p","o","r","t">>,
    <<"F","I","X",":"," ","a","d","d"," ","p","a","r","s","e","r"," ","s","u","p","p","o","r","t">>,
    <<"f","i","x","("," ","a","p","i"," ",")",":"," ","h","a","n","d","l","e"," ","n","u","l","l"," ","i","n","p","u","t">>,
    <<"f","i","x",":"," ","a","b","c","d","e","f","g",".">>,
    <<"f","i","x",":"," ",".",".",".">>,
    <<"f","i","x",":"," ","t","i","d","y"," ","u","p">>,
    <<" "," ","c","h","o","r","e",":"," ","u","p","d","a","t","e"," ","f","i","l","e","s"," ","a","n","d"," ","m","i","s","c"," ","t","h","i","n","g","s"," "," ">>,
    <<"d","o","c","s","(","r","e","a","d","m","e",")","!",":"," "," ","E","x","p","l","a","i","n"," "," ","t","h","e"," ","v","a","r","i","o","u","s"," ","S","m","a","l","l"," ","C","h","a","n","g","e","s"," ","m","a","d","e","?","!">>,
    <<"f","i","x",":"," ","d","r","o","p"," ","s","t","u","f","f","t","u","f","f">>,
    <<"M","i","s","c",".">>,
    <<"w","i","p",":"," ","a","d","j","u","s","t"," ","p","a","r","s","e","r">>,
    <<"u","p","d","a","t","e"," ","r","e","a","d","m","e">>,
    <<"f","e","a","t",":"," ","a","d","d"," ","a"," ","p","a","r","s","e","r"," ","f","o","r"," ","c","o","n","v","e","n","t","i","o","n","a","l"," ","c","o","m","m","i","t"," ","h","e","a","d","e","r","s"," ","w","i","t","h"," ","s","c","o","p","e","s"," ","a","n","d"," ","b","r","e","a","k","i","n","g"," ","m","a","r","k","e","r","s">> }

SubjectPool ==
  { <<"f","e","a","t",":"," ","a","d","d"," ","p","a","r","s","e","r">>, <<"F","i","x","(","a","p","i",")",":"," ","h","a","n","d","l","e"," ","n","u","l","l">>, <<"u","p","d","a","t","e"," ","r","e","a","d","m","e">> }

RelatedSubjectLists == SeqsUpTo(SubjectPool, MaxSubjects)

\* thresholds in thousandths: the ends of the range the validate_tone tool
\* accepts, the default 0.8, and one that no score reaches, which a direct
\* call can pass
MinToneScores == {500, 800, 1000, 1200}

---------------------------------------------------------------------------
(* The callers                                                             *)

IdleScore == stats = Unset

IdleCorrelate ==
  /\ recentCommits = Unset
  /\ minCorrelationScore = Unset
  /\ maxRelated = Unset
  /\ related = Unset

IdleTone ==
  /\ message = Unset
  /\ relatedSubjects = Unset
  /\ minToneScore = Unset
  /\ tone = Unset
  /\ retone = Unset

IdleServer ==
  /\ analyzedFilesByRepo = Unset
  /\ calls = Unset
  /\ everStored = Unset

IdleClient ==
  /\ argv = Unset
  /\ options = Unset
  /\ clientPc = Unset
  /\ toolCalls = Unset

\* scoreTypes(stats), as analyzeDiff calls it on the parsed statistics
InitScore ==
  /\ pc = "score"
  /\ stats \in StatsInputs
  /\ analysis = Unset
  /\ diffText = Unset
  /\ IdleCorrelate /\ IdleTone
  /\ IdleServer /\ IdleClient /\ invocations = Unset

ScoreTypes ==
  /\ pc = "score"
  /\ analysis' = analysisOf(stats)
  /\ pc' = "scored"
  /\ UNCHANGED <<serverVars, clientVars, invocations>>
  /\ UNCHANGED <<diffText, stats, recentCommits, minCorrelationScore, maxRelated,
                 related, message, relatedSubjects, minToneScore, tone, retone>>

NextScore == ScoreTypes

SpecScore == InitScore /\ [][NextScore]_vars

\* analyzeDiff(diffText) for a diff text
InitParse ==
  /\ pc = "parse"
  /\ diffText \in DiffTexts
  /\ analysis = Unset
  /\ IdleScore /\ IdleCorrelate /\ IdleTone
  /\ IdleServer /\ IdleClient /\ invocations = Unset

AnalyzeDiff ==
  /\ pc = "parse"
  /\ analysis' = analyzeDiff(diffText)
  /\ pc' = "parsed"
  /\ UNCHANGED <<serverVars, clientVars, invocations>>
  /\ UNCHANGED <<diffText, stats, recentCommits, minCorrelationScore, maxRelated,
                 related, message, relatedSubjects, minToneScore, tone, retone>>

NextParse == AnalyzeDiff

SpecParse == InitParse /\ [][NextParse]_vars

\* findRelatedRecentCommits(analysis, recentCommits, minCorrelationScore, maxRelated)
InitCorrelate ==
  /\ pc = "correlate"
  /\ analysis \in AnalysisInputs
  /\ recentCommits \in CommitLists
  /\ minCorrelationScore \in MinScores
  /\ maxRelated \in MaxRelatedInputs
  /\ related = Unset
  /\ diffText = Unset
  /\ IdleScore /\ IdleTone
  /\ IdleServer /\ IdleClient /\ invocations = Unset

FindRelatedRecentCommits ==
  /\ pc = "correlate"
  /\ related' = findRelatedRecentCommits(analysis, recentCommits,
                                         minCorrelationScore, maxRelated)
  /\ pc' = "correlated"
  /\ UNCHANGED <<serverVars, clientVars, invocations>>
  /\ UNCHANGED <<diffText, stats, analysis, recentCommits, minCorrelationScore,
                 maxRelated, message, relatedSubjects, minToneScore, tone, retone>>

NextCorrelate == FindRelatedRecentCommits

SpecCorrelate == InitCorrelate /\ [][NextCorrelate]_vars

\* validateTone(message, { relatedSubjects, minToneScore }), and the same call
\* on the rewrite it suggests when it marks the rewrite applied
InitTone ==
  /\ pc = "tone"
  /\ message \in Messages
  /\ relatedSubjects \in RelatedSubjectLists
  /\ minToneScore \in MinToneScores
  /\ tone = Unset
  /\ retone = Unset
  /\ analysis = Unset
  /\ diffText = Unset
  /\ IdleScore /\ IdleCorrelate
  /\ IdleServer /\ IdleClient /\ invocations = Unset

ValidateTone ==
  /\ pc = "tone"
  /\ tone' = validateTone(message, relatedSubjects, minToneScore)
  /\ pc' = "validated"
  /\ UNCHANGED <<serverVars, clientVars, invocations>>
  /\ UNCHANGED <<diffText, stats, analysis, recentCommits, minCorrelationScore,
                 maxRelated, related, message, relatedSubjects, minToneScore, retone>>

RevalidateRewrite ==
  /\ pc = "validated"
  /\ tone.applied
  /\ retone' = validateTone(tone.suggestedRewrite, relatedSubjects, minToneScore)
  /\ pc' = "revalidated"
  /\ UNCHANGED <<serverVars, clientVars, invocations>>
  /\ UNCHANGED <<diffText, stats, analysis, recentCommits, minCorrelationScore,
                 maxRelated, related, message, relatedSubjects, minToneScore, tone>>

NextTone == ValidateTone \/ RevalidateRewrite

SpecTone == InitTone /\ [][NextTone]_vars

---------------------------------------------------------------------------
(* Claims on parseGitDiff                                                  *)

\* the lines of a text that start with the sign c but not with ccc, counted
\* on the characters: a line starts at the first character and after each "\n"
signedLineCount(text, c) ==
  Cardinality({i \in 1..Len(text) :
                 /\ i = 1 \/ text[i - 1] = "\n"
                 /\ text[i] = c
                 /\ ~hasAt(text, <<c, c, c>>, i)})

\* C1: for every diff text, additions + deletions equals the number of lines
\* that start with '+' but not '+++' plus the number of lines that start with
\* '-' but not '---', and every counter is a non-negative integer.
C1_ChangedLinesCounted ==
  pc = "parsed" =>
    LET st == analysis.stats
    IN  /\ st.additions + st.deletions
             = signedLineCount(diffText, "+") + signedLineCount(diffText, "-")
        /\ \A n \in {st.additions, st.deletions, st.addedFiles, st.deletedFiles,
                     st.renamedFiles, st.featureSignals, st.fixSignals,
                     st.refactorSignals, st.perfSignals, st.styleSignals,
                     Len(st.files)} : n \in Nat

\* a parsed text with an addition, a deletion and a +++ marker line
C1_Witness ==
  /\ pc = "parsed"
  /\ analysis.stats.additions >= 1
  /\ analysis.stats.deletions >= 1
  /\ includes(diffText, <<"+","+","+"," ","b","/","x",".","m","d">>)

---------------------------------------------------------------------------
(* Claims on scoreTypes                                                    *)

typeIndex(t) == CHOOSE i \in 1..Len(ConventionalTypes) : ConventionalTypes[i] = t

\* C2 as stated: for every DiffStats whose file list is empty, whatever its
\* counters are, the first candidate returned by scoreTypes is 'chore'.
C2_EmptyFilesTopIsChore ==
  (pc = "scored" /\ Len(stats.files) = 0) =>
    analysis.recommendedTypes[1].type = "chore"

\* C2 amended: with an empty file list 'chore' totals 12 (10 + 2) and is the
\* first candidate whenever the counters give feat, fix and refactor less
\* than 12 and perf and style at most 12.
C2_EmptyFilesTopIsChoreUnlessOutscored ==
  (/\ pc = "scored"
   /\ Len(stats.files) = 0
   /\ stats.featureSignals + 2 * stats.addedFiles
        + (IF stats.additions > stats.deletions THEN 1 ELSE 0) < 12
   /\ stats.fixSignals + (IF stats.deletions > stats.additions THEN 1 ELSE 0) < 12
   /\ stats.refactorSignals + (IF stats.renamedFiles > 0 THEN 3 ELSE 0) < 12
   /\ 2 * stats.perfSignals <= 12
   /\ stats.styleSignals <= 12) =>
    /\ analysis.recommendedTypes[1].type = "chore"
    /\ analysis.recommendedTypes[1].score = 12

\* an empty file list whose counters are not zero, and 'chore' still first
C2_Witness ==
  /\ pc = "scored"
  /\ Len(stats.files) = 0
  /\ stats.featureSignals = 1
  /\ stats.additions > stats.deletions
  /\ analysis.recommendedTypes[1].type = "chore"

\* C3 as stated: when every file of a non-empty file list is a documentation
\* file, 'docs' scores strictly more than 'test' and strictly more than 'style'.
C3_DocsOutscoresTestAndStyle ==
  (/\ pc = "scored"
   /\ Len(stats.files) > 0
   /\ \A i \in 1..Len(stats.files) : isDoc(stats.files[i])) =>
    /\ typeScores(stats).docs > typeScores(stats).test
    /\ typeScores(stats).docs > typeScores(stats).style

\* C3 amended: when every file is a documentation file, 'docs' scores 12; that
\* is strictly more than 'test' unless every file is a test file too (then
\* both score 12), and strictly more than 'style' unless styleSignals is 12 or more.
C3_DocsOutscoresUnlessTestOrStyleHeavy ==
  (/\ pc = "scored"
   /\ Len(stats.files) > 0
   /\ \A i \in 1..Len(stats.files) : isDoc(stats.files[i])) =>
    LET sc == typeScores(stats)
    IN  /\ sc.docs = 12
        /\ sc.docs >= sc.test
        /\ (\E i \in 1..Len(stats.files) : ~isTest(stats.files[i])) => sc.docs > sc.test
        /\ stats.styleSignals < 12 => sc.docs > sc.style

\* documentation files only, one of them a test file too, some changed lines
C3_Witness ==
  /\ pc = "scored"
  /\ stats.files = << <<"d","o","c","s","/","t","e","s","t","-","p","l","a","n",".","m","d">>, <<"R","E","A","D","M","E",".","m","d">> >>
  /\ stats.additions > 0
  /\ typeScores(stats).docs > typeScores(stats).test

\* C10: scoreTypes returns exactly 4 candidates with pairwise distinct types,
\* each with the score of its type, in non-increasing score order, equal scores
\* in the order feat, fix, refactor, docs, test, chore, build, ci, perf, style,
\* and no omitted type scores strictly more than a returned one.
C10_TopFourStableOrder ==
  pc = "scored" =>
    LET r == analysis.recommendedTypes
        sc == typeScores(stats)
        returned == {r[i].type : i \in 1..Len(r)}
        allTypes == {ConventionalTypes[i] : i \in 1..Len(ConventionalTypes)}
    IN  /\ Len(r) = 4
        /\ Cardinality(returned) = 4
        /\ returned \subseteq allTypes
        /\ \A i \in 1..Len(r) : r[i].score = sc[r[i].type]
        /\ \A i, j \in 1..Len(r) :
             i < j => \/ r[i].score > r[j].score
                      \/ /\ r[i].score = r[j].score
                         /\ typeIndex(r[i].type) < typeIndex(r[j].type)
        /\ \A t \in allTypes \ returned : \A i \in 1..Len(r) : sc[t] <= r[i].score

\* a result with a strict step, a tie among the returned candidates and a tie
\* between the last returned candidate and an omitted one
C10_Witness ==
  /\ pc = "scored"
  /\ analysis.recommendedTypes[1].score > analysis.recommendedTypes[2].score
  /\ analysis.recommendedTypes[2].score = analysis.recommendedTypes[3].score
  /\ analysis.recommendedTypes[2].score > 0
  /\ \E i \in 1..Len(ConventionalTypes) :
       /\ \A k \in 1..4 : analysis.recommendedTypes[k].type # ConventionalTypes[i]
       /\ typeScores(stats)[ConventionalTypes[i]] = analysis.recommendedTypes[4].score

---------------------------------------------------------------------------
(* Claims on findRelatedRecentCommits                                      *)

\* the file-overlap component the call computes for the i-th recent commit
overlapAt(i) == fileOverlapRatio(analysis.stats.files, recentCommits[i].files)

\* the components the call computes for each recent commit
componentsOfCall ==
  LET tokens == buildCurrentContextTokens(analysis)
  IN  asSeq([i \in 1..Len(recentCommits) |->
               commitComponents(analysis, tokens, recentCommits[i])])

\* the entry the call builds for each recent commit
entriesOfCall ==
  LET tokens == buildCurrentContextTokens(analysis)
  IN  asSeq([i \in 1..Len(recentCommits) |->
               relatedEntry(analysis, tokens, recentCommits[i])])

\* the i-th recent commit lists the same set of paths as the analysis
sameFileSet(i) == Range(recentCommits[i].files) = Range(analysis.stats.files)

\* C4 as stated: for every pair of file lists with the same set of paths the
\* file-overlap component is exactly 1, repeated paths and two empty lists
\* included.
C4_SameFilesOverlapOne ==
  pc = "correlated" =>
    \A i \in 1..Len(recentCommits) :
      sameFileSet(i) => overlapAt(i).n = overlapAt(i).d

\* C4, amended: for every pair of non-empty file lists with the same set of
\* paths, repeated paths included, the file-overlap component is exactly 1 and
\* a returned commit reports it as 1.00; when both lists are empty the
\* component is 0 and is reported as 0.00.
C4_SameNonEmptyFilesOverlapOne ==
  pc = "correlated" =>
    \A i \in 1..Len(recentCommits) :
      sameFileSet(i) =>
        LET overlap == overlapAt(i)
            entries == {k \in 1..Len(related) : related[k].hash = recentCommits[i].hash}
        IN  IF Len(analysis.stats.files) > 0
            THEN /\ overlap.n = overlap.d
                 /\ \A k \in entries : related[k].reason.fileOverlap = 100
            ELSE /\ overlap.n = 0
                 /\ \A k \in entries : related[k].reason.fileOverlap = 0

\* a returned commit with the analysis's set of paths, both lists with a
\* repeated path
C4_Witness ==
  /\ pc = "correlated"
  /\ \E i \in 1..Len(recentCommits), k \in 1..Len(related) :
       /\ related[k].hash = recentCommits[i].hash
       /\ sameFileSet(i)
       /\ Len(recentCommits[i].files) > Cardinality(Range(recentCommits[i].files))
       /\ Len(analysis.stats.files) > Cardinality(Range(analysis.stats.files))
       /\ related[k].reason.fileOverlap = 100

\* C5: no commit whose subject matches a noise pattern (merge, release, revert,
\* chore(release) at the start; version bump, bump version, bump and a number
\* anywhere) is in the output, whatever the analysis, the commits, the
\* threshold and the count, its overlap, similarity and type match all maximal
\* included.
C5_NoNoiseCommitReturned ==
  pc = "correlated" =>
    \A k \in 1..Len(related) :
      related[k].subject \notin {commit.subject : commit \in NoiseCommits}

\* a noise commit of overlap 1, similarity 1 and matching type is left out
\* under the threshold 0 while another commit is returned
C5_Witness ==
  /\ pc = "correlated"
  /\ minCorrelationScore = 0
  /\ maxRelated = 3
  /\ Len(related) > 0
  /\ LET parts == componentsOfCall
     IN  \E i \in 1..Len(recentCommits) :
           /\ recentCommits[i] \in NoiseCommits
           /\ parts[i].overlap.n = parts[i].overlap.d
           /\ parts[i].tokenSimilarity.n = parts[i].tokenSimilarity.d
           /\ parts[i].typeMatch = 1
           /\ \A k \in 1..Len(related) : related[k].hash # recentCommits[i].hash

\* the output entries whose commit has a combined score, before rounding, of
\* at least the threshold
unroundedAtLeastThreshold ==
  LET parts == componentsOfCall
  IN  {k \in 1..Len(related) :
         \E i \in 1..Len(recentCommits) :
           /\ recentCommits[i].hash = related[k].hash
           /\ LET score == combinedScore(parts[i])
              IN  score.n * 10000 >= minCorrelationScore * score.d}

\* C8 as stated: every returned commit reports a score in [0, 1] that is at
\* least the threshold, and no commit whose combined score is below the
\* threshold is returned.
C8_ReportedScoreAtLeastThreshold ==
  pc = "correlated" =>
    /\ unroundedAtLeastThreshold = 1..Len(related)
    /\ \A k \in 1..Len(related) :
         /\ related[k].score \in 0..1000
         /\ related[k].score * 10 >= minCorrelationScore

\* C8, amended: every returned commit reports a score in [0, 1]; its combined
\* score before rounding is at least the threshold; the reported score, rounded
\* to three decimals, is at least the threshold less 0.0005, and at least the
\* threshold when the threshold is a multiple of 0.001.
C8_ReportedScoreWithinRounding ==
  pc = "correlated" =>
    /\ unroundedAtLeastThreshold = 1..Len(related)
    /\ \A k \in 1..Len(related) :
         /\ related[k].score \in 0..1000
         /\ related[k].score * 10 >= minCorrelationScore - 5
         /\ minCorrelationScore % 10 = 0 => related[k].score * 10 >= minCorrelationScore

\* a returned commit whose reported score is the threshold itself
C8_Witness ==
  /\ pc = "correlated"
  /\ minCorrelationScore > 0
  /\ \E k \in 1..Len(related) : related[k].score * 10 = minCorrelationScore

\* the recent commits the loop keeps
qualifying ==
  LET tokens == buildCurrentContextTokens(analysis)
  IN  {i \in 1..Len(recentCommits) :
         ~skipsCommit(analysis, tokens, recentCommits[i], minCorrelationScore)}

\* C9: with a count of at least 0 the output is in non-increasing order of
\* reported score, has at most that many entries, and holds the
\* highest-scoring kept commits: a kept commit that is left out scores no
\* higher than any returned one.
C9_SortedTopOfQualifying ==
  (pc = "correlated" /\ maxRelated >= 0) =>
    LET kept == qualifying
        entries == entriesOfCall
    IN  /\ \A k \in 1..(Len(related) - 1) : related[k].score >= related[k + 1].score
        /\ Len(related) <= maxRelated
        /\ Len(related) = IF Cardinality(kept) < maxRelated
                          THEN Cardinality(kept) ELSE maxRelated
        /\ \A k \in 1..Len(related) : \E i \in kept : related[k] = entries[i]
        /\ \A i \in kept :
             Cardinality({k \in 1..Len(related) : related[k] = entries[i]})
                 < Cardinality({j \in kept : entries[j] = entries[i]})
               => \A k \in 1..Len(related) : related[k].score >= entries[i].score

\* two kept commits, the later one with the higher score: the output is the
\* later one alone
C9_Witness ==
  /\ pc = "correlated"
  /\ maxRelated = 1
  /\ Len(related) = 1
  /\ qualifying = {1, 2}
  /\ related[1] = entriesOfCall[2]
  /\ entriesOfCall[1].score < entriesOfCall[2].score

---------------------------------------------------------------------------
(* Claims on validateTone                                                  *)

\* C6: whenever validateTone marks its rewrite applied, validateTone on that
\* rewrite, with the same related subjects and threshold, gives a tone score
\* that is not lower than the first one.
C6_RewriteScoreNotLower ==
  pc = "revalidated" => retone.toneScore >= tone.toneScore

\* applied is true exactly when the tone score is strictly below the threshold
\* and the rewrite differs from the trimmed message
appliedAsStated(result, input) ==
  result.applied <=> (/\ result.toneScore < minToneScore
                      /\ result.suggestedRewrite # trim(input))

\* C7 as stated: applied is true exactly when the final tone score is strictly
\* below the threshold and the suggested rewrite differs from the trimmed
\* message, for every message and every threshold; a message with no violation
\* is never marked applied.
C7_AppliedIffBelowAndDifferent ==
  /\ pc \in {"validated", "revalidated"} =>
       /\ appliedAsStated(tone, message)
       /\ tone.violations = <<>> => ~tone.applied
  /\ pc = "revalidated" =>
       /\ appliedAsStated(retone, tone.suggestedRewrite)
       /\ retone.violations = <<>> => ~retone.applied

\* C7, amended: applied is true exactly when the final tone score is strictly
\* below the threshold and the suggested rewrite differs from the trimmed
\* message, for every message and every threshold; under a threshold of at
\* most 1 a message with no violation is never marked applied.
C7_AppliedIffBelowAndDifferentUpToOne ==
  /\ pc \in {"validated", "revalidated"} =>
       /\ appliedAsStated(tone, message)
       /\ (tone.violations = <<>> /\ minToneScore <= 1000) => ~tone.applied
  /\ pc = "revalidated" =>
       /\ appliedAsStated(retone, tone.suggestedRewrite)
       /\ (retone.violations = <<>> /\ minToneScore <= 1000) => ~retone.applied

\* under the threshold 1 a message with no violation whose rewrite differs
\* from it is not marked applied
C7_Witness ==
  /\ pc = "validated"
  /\ minToneScore = 1000
  /\ tone.violations = <<>>
  /\ tone.suggestedRewrite # trim(message)
  /\ ~tone.applied

---------------------------------------------------------------------------
(* Further claims on parseGitDiff                                          *)

\* some line of the text has the form diff --git a/<path> b/<path>, with
\* both paths non-empty and no line terminator in the line
hasWellFormedHeader(text) ==
  \E i \in 1..Len(split(text, "\n")) :
    LET line == split(text, "\n")[i]
    IN  /\ startsWith(line, <<"d","i","f","f"," ","-","-","g","i","t"," ","a","/">>)
        /\ \E k \in 15..(Len(line) - 3) : hasAt(line, <<" ","b","/">>, k)
        /\ \A j \in 1..Len(line) : line[j] \notin LineTerminators

isZeroRecord(s) ==
  /\ s.files = <<>>
  /\ s.additions = 0 /\ s.deletions = 0
  /\ s.addedFiles = 0 /\ s.deletedFiles = 0 /\ s.renamedFiles = 0
  /\ s.featureSignals = 0 /\ s.fixSignals = 0 /\ s.refactorSignals = 0
  /\ s.perfSignals = 0 /\ s.styleSignals = 0
  /\ ~s.hasBreakingHint
  /\ ~s.hasTestFiles /\ ~s.hasDocsFiles /\ ~s.hasConfigFiles /\ ~s.hasCodeFiles

\* C11: for every text with no well-formed diff --git a/<path> b/<path>
\* header, the empty text included, parseGitDiff returns the zero-valued
\* record: no file, every count and signal counter 0, every flag false.
C11_MalformedGivesZeroRecord ==
  (pc = "parsed" /\ ~hasWellFormedHeader(diffText)) =>
    isZeroRecord(analysis.stats)

\* C11 (amended): the empty text gives the zero-valued record, and a text
\* with no well-formed header gives an empty file list and four false shape
\* flags, whatever its other lines add to the counters.
C11_NoHeaderGivesNoFiles ==
  /\ (pc = "parsed" /\ diffText = <<>>) => isZeroRecord(analysis.stats)
  /\ (pc = "parsed" /\ ~hasWellFormedHeader(diffText)) =>
       /\ analysis.stats.files = <<>>
       /\ ~analysis.stats.hasTestFiles
       /\ ~analysis.stats.hasDocsFiles
       /\ ~analysis.stats.hasConfigFiles
       /\ ~analysis.stats.hasCodeFiles

\* a text whose only header line is malformed, with counted lines, was parsed
C11_Witness ==
  /\ pc = "parsed"
  /\ ~hasWellFormedHeader(diffText)
  /\ includes(diffText, <<"d","i","f","f"," ","-","-","g","i","t"," ","x",".","m","d">>)
  /\ analysis.stats.additions > 0

\* the call on the one-file documentation diff has returned
docsDiffParsed ==
  /\ pc = "parsed"
  /\ diffText = <<"d","i","f","f"," ","-","-","g","i","t"," ","a","/","x",".","m","d"," ","b","/","x",".","m","d","\n","+","h","e","l","l","o","\n">>

\* C14: for the text 'diff --git a/x.md b/x.md', '+hello' and a final line
\* break, parseGitDiff returns files = [x.md], additions = 1, deletions = 0
\* and hasDocsFiles = true, and the top candidate of scoreTypes is docs.
C14_DocsDiffExample ==
  docsDiffParsed =>
    /\ analysis.stats.files = <<<<"x",".","m","d">>>>
    /\ analysis.stats.additions = 1
    /\ analysis.stats.deletions = 0
    /\ analysis.stats.hasDocsFiles
    /\ scoreTypes(analysis.stats)[1].type = "docs"
    /\ analysis.recommendedTypes[1].type = "docs"

C14_Witness ==
  /\ docsDiffParsed
  /\ Len(analysis.stats.files) = 1
  /\ analysis.recommendedTypes[1].score = 12

---------------------------------------------------------------------------
(* Further claims on validateTone                                          *)

\* the subject the rules look at: the parsed subject, or the whole trimmed
\* message when the header does not parse
subjectOfMessage(msg) ==
  IF parseHeader(trim(msg)).ok THEN trim(parseHeader(trim(msg)).subject)
  ELSE trim(msg)

\* the condition of each of the six rules, in rule order
ruleHolds(r, msg, subjects) ==
  LET parsed == parseHeader(trim(msg))
      subject == subjectOfMessage(msg)
      dominant == mostFrequentType(subjects)
  IN  CASE r = 1 -> ~parsed.ok
        [] r = 2 -> Len(subject) < 8 \/ Len(subject) > 72
        [] r = 3 -> Len(subject) > 0 /\ subject[Len(subject)] \in {".", "!", "?"}
        [] r = 4 -> \E i \in 1..Len(VAGUE_SUBJECT_HINTS) :
                      includes(toLowerCase(subject), VAGUE_SUBJECT_HINTS[i])
        [] r = 5 -> Len(subject) > 0 /\ subject[1] \in UpperChars
        [] r = 6 -> /\ dominant # Null
                    /\ parsed.ok
                    /\ toLowerCase(parsed.type) # TypeText[dominant]

firedRules(msg, subjects) == { r \in 1..6 : ruleHolds(r, msg, subjects) }

\* the sum of the penalties of a set of rules, in thousandths
penaltyOfRules(F) ==
  (IF 1 \in F THEN 350 ELSE 0) + (IF 2 \in F THEN 120 ELSE 0)
  + (IF 3 \in F THEN 80 ELSE 0) + (IF 4 \in F THEN 200 ELSE 0)
  + (IF 5 \in F THEN 50 ELSE 0) + (IF 6 \in F THEN 150 ELSE 0)

\* the rule a violation text belongs to
ruleOfViolation(t) ==
  CASE t = "header is not in Conventional Commit format" -> 1
    [] t = "subject length should stay between 8 and 72 characters" -> 2
    [] t = "subject should not end with punctuation" -> 3
    [] t = "subject contains vague wording" -> 4
    [] t = "subject should start with lowercase verb" -> 5
    [] \E k \in DOMAIN DivergenceText : t = DivergenceText[k] -> 6
    [] OTHER -> 0

scoreAsStated(result, msg, subjects) ==
  LET F == firedRules(msg, subjects)
      raw == 1000 - penaltyOfRules(F)
      v == result.violations
  IN  /\ result.toneScore = (IF raw < 0 THEN 0 ELSE IF raw > 1000 THEN 1000 ELSE raw)
      /\ Len(v) = Cardinality(F)
      /\ \A i \in 1..Len(v) : ruleOfViolation(v[i]) \in F
      /\ \A i \in 1..Len(v) : \A j \in (i + 1)..Len(v) :
           ruleOfViolation(v[i]) < ruleOfViolation(v[j])

\* C12: the toneScore is 1 minus the penalties of exactly the rules whose
\* condition holds (0.35, 0.12, 0.08, 0.20, 0.05, 0.15), clamped to [0, 1],
\* and the violations hold one entry per fired rule, in rule order.
C12_ScoreIsOneMinusFiredPenalties ==
  /\ pc \in {"validated", "revalidated"} =>
       scoreAsStated(tone, message, relatedSubjects)
  /\ pc = "revalidated" =>
       scoreAsStated(retone, tone.suggestedRewrite, relatedSubjects)

\* a parsed message that diverges from the related history and also ends in
\* an exclamation mark was scored
C12_Witness ==
  /\ pc = "validated"
  /\ 6 \in firedRules(message, relatedSubjects)
  /\ 3 \in firedRules(message, relatedSubjects)
  /\ subjectOfMessage(message)[Len(subjectOfMessage(message))] = "!"
  /\ Len(tone.violations) >= 3
  /\ tone.toneScore < 800

\* the call validateTone('Fix stuff.') with no related subject and the
\* default threshold has returned
fixStuffValidated ==
  /\ pc = "validated"
  /\ message = <<"F","i","x"," ","s","t","u","f","f",".">>
  /\ relatedSubjects = <<>>
  /\ minToneScore = 800

\* C13: for 'Fix stuff.' the violations include the punctuation, the vague
\* wording and the upper-case start, and the suggested rewrite does not end
\* in . ! or ?, does not contain 'stuff', and its subject starts with a
\* lower-case letter.
C13_FixStuffViolationsAndRewrite ==
  fixStuffValidated =>
    /\ \E i \in 1..Len(tone.violations) :
         tone.violations[i] = "subject should not end with punctuation"
    /\ \E i \in 1..Len(tone.violations) :
         tone.violations[i] = "subject contains vague wording"
    /\ \E i \in 1..Len(tone.violations) :
         tone.violations[i] = "subject should start with lowercase verb"
    /\ tone.suggestedRewrite # <<>>
    /\ tone.suggestedRewrite[Len(tone.suggestedRewrite)] \notin {".", "!", "?"}
    /\ ~includes(tone.suggestedRewrite, <<"s","t","u","f","f">>)
    /\ parseHeader(tone.suggestedRewrite).ok
    /\ parseHeader(tone.suggestedRewrite).subject # <<>>
    /\ parseHeader(tone.suggestedRewrite).subject[1] \in LowerChars

C13_Witness ==
  /\ fixStuffValidated
  /\ tone.applied
  /\ tone.suggestedRewrite = <<"c","h","o","r","e",":"," ","f","i","x"," ","i","m","p","l","e","m","e","n","t","a","t","i","o","n"," ","d","e","t","a","i","l","s">>

---------------------------------------------------------------------------
(* The MCP server: analyze_diff and execute_commit over the file cache     *)

\* an optional tool argument: omitted, or given with a value
Absent == [given |-> FALSE, value |-> <<>>]

\* an omitted boolean argument
AbsentFlag == [given |-> FALSE, value |-> FALSE]

Given(v) == [given |-> TRUE, value |-> v]

\* process.cwd() of the server process
Cwd == <<"/","r","e","p","o">>

OtherRepo == <<"/","o","t","h","e","r">>

normalizeRepoPath(repoPath) ==
  IF repoPath.given /\ repoPath.value # <<>> /\ trim(repoPath.value) # <<>>
  THEN repoPath.value
  ELSE Cwd

PlaceholderWords ==
  {<<"h","e","a","d","e","r">>, <<"s","u","b","j","e","c","t">>, <<"m","e","s","s","a","g","e">>, <<"b","o","d","y">>, <<"f","o","o","t","e","r">>}

\* explicitPlaceholders without the square-bracket forms
explicitPlaceholders_angleOnly ==
  { <<"<">> \o w \o <<">">> : w \in PlaceholderWords }

explicitPlaceholders ==
  { <<"<">> \o w \o <<">">> : w \in PlaceholderWords }
  \cup { <<"[">> \o w \o <<"]">> : w \in PlaceholderWords }

\* /<\s*(header|subject|message|body|footer)\s*>/ matching at position i
angleTokenAt(s, i) ==
  /\ s[i] = "<"
  /\ \E w \in PlaceholderWords : \E a \in 0..Len(s) : \E b \in 0..Len(s) :
       /\ i + a + Len(w) + b + 1 <= Len(s)
       /\ \A j \in (i + 1)..(i + a) : s[j] \in SpaceChars
       /\ hasAt(s, w, i + a + 1)
       /\ \A j \in (i + a + Len(w) + 1)..(i + a + Len(w) + b) : s[j] \in SpaceChars
       /\ s[i + a + Len(w) + b + 1] = ">"

placeholderIn(normalized) ==
  IF normalized = <<>> THEN FALSE
  ELSE \/ normalized \in explicitPlaceholders
       \/ \E i \in 1..Len(normalized) : angleTokenAt(normalized, i)

hasPlaceholderText(value) == placeholderIn(toLowerCase(trim(value)))

\* analyzedFilesByRepo.get(key) ?? []
cacheGet(cache, key) == IF key \in DOMAIN cache THEN cache[key] ELSE <<>>

\* analyzedFilesByRepo.set(key, files) appending to the list already stored
cacheSet_appending(cache, key, files) ==
  [k \in DOMAIN cache \cup {key} |->
     IF k = key THEN cacheGet(cache, key) \o files ELSE cache[k]]

\* analyzedFilesByRepo.set(key, files)
cacheSet(cache, key, files) ==
  [k \in DOMAIN cache \cup {key} |-> IF k = key THEN files ELSE cache[k]]

\* Array.from(new Set(...)) on the trimmed names: first occurrences, in order
RECURSIVE keepFirsts(_, _)
keepFirsts(names, i) ==
  IF i > Len(names) THEN <<>>
  ELSE (IF names[i] # <<>> /\ \A j \in 1..(i - 1) : names[j] # names[i]
        THEN <<names[i]>> ELSE <<>>)
       \o keepFirsts(names, i + 1)

\* the unique list of stageFiles
uniqueFiles(files) ==
  keepFirsts(asSeq([i \in 1..Len(files) |-> trim(files[i])]), 1)

\* the git arguments of stageFiles
addArgs(unique) == <<<<"a","d","d">>, <<"-","A">>, <<"-","-">>>> \o unique

\* the trimmed optional text, or nothing when omitted or blank
trimmedOptional(arg) == IF arg.given THEN trim(arg.value) ELSE <<>>

\* the git arguments of the commit
commitArgs(input) ==
  <<<<"c","o","m","m","i","t">>, <<"-","m">>, trim(input.message)>>
  \o (IF trimmedOptional(input.body) # <<>>
      THEN <<<<"-","m">>, trimmedOptional(input.body)>> ELSE <<>>)
  \o (IF trimmedOptional(input.footer) # <<>>
      THEN <<<<"-","m">>, trimmedOptional(input.footer)>> ELSE <<>>)
  \o (IF input.dryRun.given /\ input.dryRun.value THEN <<<<"-","-","d","r","y","-","r","u","n">>>> ELSE <<>>)

isDryRun(input) == input.dryRun.given /\ input.dryRun.value

\* shouldAutoStage with staging off when the argument is omitted
shouldAutoStage_optIn(input) ==
  input.autoStageAnalyzed.given /\ input.autoStageAnalyzed.value

shouldAutoStage(input) ==
  IF input.autoStageAnalyzed.given THEN input.autoStageAnalyzed.value ELSE TRUE

NoInput ==
  [repoPath |-> Absent, message |-> <<>>, body |-> Absent, footer |-> Absent,
   dryRun |-> AbsentFlag, autoStageAnalyzed |-> AbsentFlag]

\* tone holds the ToneValidation of a validate_tone response, if any
NoResponse ==
  [isError |-> FALSE, text |-> "", hasChanges |-> FALSE, changedFiles |-> <<>>,
   autoStagedFiles |-> 0, tone |-> <<>>]

errorResponse(text) == [NoResponse EXCEPT !.isError = TRUE, !.text = text]

\* an omitted numeric argument
AbsentNumber == [given |-> FALSE, value |-> 0]

\* a slot of the server holding no call
IdleCall ==
  [tool |-> "none", pc |-> "idle", targetRepo |-> <<>>, files |-> <<>>,
   input |-> NoInput, minToneScore |-> AbsentNumber, git |-> <<>>,
   response |-> NoResponse]

\* the handler returns: its response stays with the call, the file list it
\* held is dropped
returned(call, response) ==
  [call EXCEPT !.pc = "done", !.files = <<>>, !.response = response]

\* options?.minToneScore ?? 0.8, in thousandths
toneThreshold(arg) == IF arg.given THEN arg.value ELSE 800

\* (relatedRecentCommits ?? []).map((commit) => commit.subject).filter(Boolean)
givenSubjects(arg) ==
  IF ~arg.given THEN <<>>
  ELSE SelectSeq(asSeq([i \in 1..Len(arg.value) |-> arg.value[i].subject]),
                 isNonEmpty)

isNotNoise(commit) == ~isLikelyNoiseCommit(commit.subject)

\* recent.filter((commit) => !isLikelyNoiseCommit(commit.subject)).slice(0, 3)
\*   .map((commit) => commit.subject)
sampledSubjects(recent) ==
  asSeq([i \in 1..Len(sliceTo(SelectSeq(recent, isNotNoise), 3)) |->
           SelectSeq(recent, isNotNoise)[i].subject])

tonedResponse(result) ==
  [NoResponse EXCEPT !.text = "Tone score", !.tone = <<result>>]

\* the handler of validate_tone up to its await on the git log, or to its
\* response when the call brings related subjects; the arguments stay with
\* the call while it awaits
validateStart(args) ==
  IF givenSubjects(args.relatedRecentCommits) # <<>>
  THEN returned([IdleCall EXCEPT !.tool = "validate_tone",
                                 !.targetRepo = normalizeRepoPath(args.repoPath)],
                tonedResponse(validateTone(args.message,
                                           givenSubjects(args.relatedRecentCommits),
                                           toneThreshold(args.minToneScore))))
  ELSE [IdleCall EXCEPT !.tool = "validate_tone", !.pc = "log",
                        !.targetRepo = normalizeRepoPath(args.repoPath),
                        !.input = [NoInput EXCEPT !.repoPath = args.repoPath,
                                                  !.message = args.message],
                        !.minToneScore = args.minToneScore]

\* validate_tone from the result of runRecentCommitContext to its response
validateAfterLog(call, outcome) ==
  IF ~outcome.ok THEN returned(call, errorResponse("Unable to validate tone"))
  ELSE returned(call, tonedResponse(validateTone(call.input.message,
                                                 sampledSubjects(outcome.commits),
                                                 toneThreshold(call.minToneScore))))

\* the handler of analyze_diff up to the await on runGitDiff
analyzeStart(repoPath) ==
  [IdleCall EXCEPT !.tool = "analyze_diff", !.pc = "diff",
                   !.targetRepo = normalizeRepoPath(repoPath)]

\* analyze_diff from the result of runGitDiff to the await on the git log;
\* analysis.stats is parseGitDiff(diff)
analyzeAfterDiff(call, outcome) ==
  IF ~outcome.ok THEN returned(call, errorResponse("Unable to analyze diff"))
  ELSE IF trim(outcome.stdout) = <<>>
  THEN returned(call, [NoResponse EXCEPT
                         !.text = "No changes found in selected diff scope."])
  ELSE [call EXCEPT !.pc = "log", !.files = parseGitDiff(outcome.stdout).files]

analyzedResponse(files) ==
  [NoResponse EXCEPT !.text = "Diff analyzed", !.hasChanges = TRUE,
                     !.changedFiles = files]

\* execute_commit once the message, body and footer passed the guards
executeStaging(call, cache) ==
  IF ~shouldAutoStage(call.input)
  THEN [call EXCEPT !.pc = "commit", !.git = <<commitArgs(call.input)>>]
  ELSE IF cacheGet(cache, call.targetRepo) = <<>>
  THEN returned(call, errorResponse("No analyzed files found for this repository."))
  ELSE IF uniqueFiles(cacheGet(cache, call.targetRepo)) = <<>>
  THEN [call EXCEPT !.pc = "commit",
                    !.files = cacheGet(cache, call.targetRepo),
                    !.git = <<commitArgs(call.input)>>]
  ELSE [call EXCEPT !.pc = "add",
                    !.files = cacheGet(cache, call.targetRepo),
                    !.git = <<addArgs(uniqueFiles(cacheGet(cache, call.targetRepo)))>>]

\* the placeholder guard looking at the message only
rejectsPlaceholder_messageOnly(input) == hasPlaceholderText(trim(input.message))

\* the placeholder guard on the trimmed message, body and footer
rejectsPlaceholder(input) ==
  \/ hasPlaceholderText(trim(input.message))
  \/ trimmedOptional(input.body) # <<>>
       /\ hasPlaceholderText(trimmedOptional(input.body))
  \/ trimmedOptional(input.footer) # <<>>
       /\ hasPlaceholderText(trimmedOptional(input.footer))

\* the handler of execute_commit up to its first await
executeStart(input, cache) ==
  IF trim(input.message) = <<>>
  THEN returned([IdleCall EXCEPT !.tool = "execute_commit", !.input = input],
                errorResponse("Commit message cannot be empty."))
  ELSE IF rejectsPlaceholder(input)
  THEN returned([IdleCall EXCEPT !.tool = "execute_commit", !.input = input],
                errorResponse("Commit message/body/footer contains placeholder text"))
  ELSE executeStaging([IdleCall EXCEPT !.tool = "execute_commit",
                                       !.input = input,
                                       !.targetRepo = normalizeRepoPath(input.repoPath)],
                      cache)

autoStagedFilesOf(call) ==
  IF shouldAutoStage(call.input) THEN Len(call.files) ELSE 0

committedResponse(call) ==
  [NoResponse EXCEPT
     !.text = IF isDryRun(call.input) THEN "Dry-run commit executed successfully."
              ELSE "Commit executed successfully.",
     !.autoStagedFiles = autoStagedFilesOf(call)]

---------------------------------------------------------------------------
(* Inputs of the server: tool arguments and outcomes of the git commands   *)

MaxInFlight == 2

Slots == 1..MaxInFlight

RepoPathInputs ==
  {Absent, Given(<<>>), Given(<<" "," ">>), Given(Cwd), Given(OtherRepo)}

ServerRepoPaths == {Absent, Given(OtherRepo)}

FlagInputs == {AbsentFlag, Given(TRUE), Given(FALSE)}

gitFailure == [ok |-> FALSE, stdout |-> <<>>]

gitOutput(text) == [ok |-> TRUE, stdout |-> text]

\* results of runGitDiff: no diff, a blank diff, a diff with no parsable
\* header, one file, two files, a file name that is blank
ToolDiffTexts ==
  { <<>>,
    <<" ","\n">>,
    <<"+","h","e","l","l","o">>,
    <<"d","i","f","f"," ","-","-","g","i","t"," ","a","/","x",".","m","d"," ","b","/","x",".","m","d","\n","+","h","e","l","l","o","\n">>,
    <<"d","i","f","f"," ","-","-","g","i","t"," ","a","/","s","r","c","/","a","p","p",".","t","s"," ","b","/","s","r","c","/","a","p","p",".","t","s","\n","+","x","\n","d","i","f","f"," ","-","-","g","i","t"," ","a","/","x",".","m","d"," ","b","/","x",".","m","d","\n","-","y">>,
    <<"d","i","f","f"," ","-","-","g","i","t"," ","a","/","x"," ","b","/"," ","\n","+","y">> }

ServerDiffTexts ==
  { <<>>,
    <<"d","i","f","f"," ","-","-","g","i","t"," ","a","/","x",".","m","d"," ","b","/","x",".","m","d","\n","+","h","e","l","l","o","\n">>,
    <<"d","i","f","f"," ","-","-","g","i","t"," ","a","/","s","r","c","/","a","p","p",".","t","s"," ","b","/","s","r","c","/","a","p","p",".","t","s","\n","+","x","\n","d","i","f","f"," ","-","-","g","i","t"," ","a","/","x",".","m","d"," ","b","/","x",".","m","d","\n","-","y">> }

ToolDiffOutcomes == {gitFailure} \cup { gitOutput(t) : t \in ToolDiffTexts }

ServerDiffOutcomes == {gitFailure} \cup { gitOutput(t) : t \in ServerDiffTexts }

\* message, body and footer of execute_commit calls
CommitTexts ==
  { [message |-> <<"f","e","a","t",":"," ","a","d","d"," ","p","a","r","s","e","r">>, body |-> Absent, footer |-> Absent],
    [message |-> <<"f","e","a","t",":"," ","a","d","d"," ","p","a","r","s","e","r">>, body |-> Given(<<"d","e","t","a","i","l","s">>),
     footer |-> Given(<<"R","e","f","s",":"," ","#","1">>)],
    [message |-> <<" "," "," ">>, body |-> Absent, footer |-> Absent],
    [message |-> <<"<","s","u","b","j","e","c","t",">">>, body |-> Absent, footer |-> Absent],
    [message |-> <<" ","[","S","u","b","j","e","c","t","]"," ">>, body |-> Absent, footer |-> Absent],
    [message |-> <<"f","i","x",":"," ","h","a","n","d","l","e"," ","<"," ","B","o","d","y"," ",">"," ","t","e","x","t">>, body |-> Absent, footer |-> Absent],
    [message |-> <<"f","i","x",":"," ","h","a","n","d","l","e"," ","[","b","o","d","y","]"," ","t","e","x","t">>, body |-> Absent, footer |-> Absent],
    [message |-> <<"f","e","a","t",":"," ","a","d","d"," ","p","a","r","s","e","r">>, body |-> Given(<<"<","b","o","d","y",">">>), footer |-> Absent],
    [message |-> <<"f","e","a","t",":"," ","a","d","d"," ","p","a","r","s","e","r">>, body |-> Absent,
     footer |-> Given(<<"s","e","e"," ","[","f","o","o","t","e","r","]">>)],
    [message |-> <<"f","e","a","t",":"," ","a","d","d"," ","p","a","r","s","e","r">>, body |-> Given(<<" "," ">>),
     footer |-> Given(<<"[","f","o","o","t","e","r","]">>)] }

PlainText == [message |-> <<"f","e","a","t",":"," ","a","d","d"," ","p","a","r","s","e","r">>, body |-> Absent, footer |-> Absent]

commitInput(r, t, d, a) ==
  [repoPath |-> r, message |-> t.message, body |-> t.body, footer |-> t.footer,
   dryRun |-> d, autoStageAnalyzed |-> a]

\* every flag combination and both repositories with the plain message, and
\* every text with the default flags and with a dry run without staging
ToolCommitInputs ==
  { commitInput(r, PlainText, d, a) :
      r \in {Absent, Given(OtherRepo)}, d \in FlagInputs, a \in FlagInputs }
  \cup { commitInput(Absent, t, AbsentFlag, AbsentFlag) : t \in CommitTexts }
  \cup { commitInput(Absent, t, Given(TRUE), Given(FALSE)) : t \in CommitTexts }

ServerCommitInputs == { commitInput(Absent, PlainText, AbsentFlag, AbsentFlag) }

\* validate_tone calls: no related commits, related commits with a subject,
\* related commits without one
ToneCallInputs ==
  { [repoPath |-> Absent, message |-> <<"F","i","x"," ","s","t","u","f","f",".">>,
     relatedRecentCommits |-> Absent, minToneScore |-> AbsentNumber],
    [repoPath |-> Given(OtherRepo), message |-> <<"f","e","a","t","(","a","p","i",")",":"," ","a","d","d"," ","p","a","r","s","e","r"," ","s","u","p","p","o","r","t">>,
     relatedRecentCommits |-> Given(<< [hash |-> "g1", subject |-> <<"f","i","x",":"," ","h","a","n","d","l","e"," ","n","u","l","l">>] >>),
     minToneScore |-> Given(1000)],
    [repoPath |-> Absent, message |-> <<"f","e","a","t","(","a","p","i",")",":"," ","a","d","d"," ","p","a","r","s","e","r"," ","s","u","p","p","o","r","t">>,
     relatedRecentCommits |-> Given(<< [hash |-> "g0", subject |-> <<>>] >>),
     minToneScore |-> Given(500)] }

\* results of runRecentCommitContext for validate_tone: a failure, or a merge
\* and an ordinary commit
ToneLogOutcomes ==
  { [ok |-> FALSE, commits |-> <<>>],
    [ok |-> TRUE,
     commits |-> << commitOf("n1", <<"M","e","r","g","e"," ","b","r","a","n","c","h"," ","'","m","a","i","n","'"," ","i","n","t","o"," ","b","u","m","p">>, <<>>),
                    commitOf("g1", <<"f","i","x","(","a","p","i",")",":"," ","h","a","n","d","l","e"," ","n","u","l","l">>, << <<"s","r","c","/","a","p","i",".","t","s">> >>) >>] }

---------------------------------------------------------------------------
(* The tool handlers, one action per stretch between two awaits            *)

IdleCore ==
  /\ pc = Unset /\ diffText = Unset /\ analysis = Unset /\ invocations = Unset
  /\ IdleScore /\ IdleCorrelate /\ IdleTone

InitServer ==
  /\ analyzedFilesByRepo = <<>>
  /\ calls = [i \in Slots |-> IdleCall]
  /\ everStored = {}
  /\ IdleCore /\ IdleClient

\* slot i takes the next call: it is the first one that holds no call in flight
isFree(i) ==
  /\ calls[i].pc \in {"idle", "done"}
  /\ \A j \in 1..(i - 1) : calls[j].pc \notin {"idle", "done"}

\* analyze_diff is called: normalizeRepoPath, then the git diff is awaited
AnalyzeDiffCall(i, repoPath) ==
  /\ isFree(i)
  /\ calls' = [calls EXCEPT ![i] = analyzeStart(repoPath)]
  /\ UNCHANGED <<analyzedFilesByRepo, everStored, coreVars, clientVars, invocations>>

\* runGitDiff settles: failure, no changes, or the analysis and the await on
\* the git log
AnalyzeDiffAfterDiff(i, outcome) ==
  /\ calls[i].tool = "analyze_diff"
  /\ calls[i].pc = "diff"
  /\ calls' = [calls EXCEPT ![i] = analyzeAfterDiff(@, outcome)]
  /\ UNCHANGED <<analyzedFilesByRepo, everStored, coreVars, clientVars, invocations>>

\* runRecentCommitContext settles: failure, or the cache write and the response
AnalyzeDiffAfterLog(i, ok) ==
  /\ calls[i].tool = "analyze_diff"
  /\ calls[i].pc = "log"
  /\ IF ok
     THEN /\ analyzedFilesByRepo' =
               cacheSet(analyzedFilesByRepo, calls[i].targetRepo, calls[i].files)
          /\ everStored' = IF calls[i].files # <<>>
                           THEN everStored \cup {calls[i].targetRepo}
                           ELSE everStored
          /\ calls' = [calls EXCEPT ![i] = returned(@, analyzedResponse(calls[i].files))]
     ELSE /\ calls' = [calls EXCEPT
                         ![i] = returned(@, errorResponse("Unable to analyze diff"))]
          /\ UNCHANGED <<analyzedFilesByRepo, everStored>>
  /\ UNCHANGED <<coreVars, clientVars, invocations>>

\* execute_commit is called: the guards, the cache read and the first git
\* command
ExecuteCommitCall(i, input) ==
  /\ isFree(i)
  /\ calls' = [calls EXCEPT ![i] = executeStart(input, analyzedFilesByRepo)]
  /\ UNCHANGED <<analyzedFilesByRepo, everStored, coreVars, clientVars, invocations>>

\* git add settles: failure, or the commit is run
ExecuteCommitAfterAdd(i, ok) ==
  /\ calls[i].tool = "execute_commit"
  /\ calls[i].pc = "add"
  /\ calls' = [calls EXCEPT ![i] =
                 IF ok
                 THEN [@ EXCEPT !.pc = "commit",
                                !.git = Append(@, commitArgs(calls[i].input))]
                 ELSE returned(@, errorResponse("Commit execution failed"))]
  /\ UNCHANGED <<analyzedFilesByRepo, everStored, coreVars, clientVars, invocations>>

\* git commit settles, and a successful commit empties the entry of its key
ExecuteCommitAfterCommit_clearing(i, ok) ==
  /\ calls[i].tool = "execute_commit"
  /\ calls[i].pc = "commit"
  /\ calls' = [calls EXCEPT ![i] =
                 IF ok THEN returned(@, committedResponse(@))
                 ELSE returned(@, errorResponse("Commit execution failed"))]
  /\ analyzedFilesByRepo' =
       IF ok THEN cacheSet(analyzedFilesByRepo, calls[i].targetRepo, <<>>)
       ELSE analyzedFilesByRepo
  /\ UNCHANGED <<everStored, coreVars, clientVars, invocations>>

\* git commit settles: failure, or the success response
ExecuteCommitAfterCommit(i, ok) ==
  /\ calls[i].tool = "execute_commit"
  /\ calls[i].pc = "commit"
  /\ calls' = [calls EXCEPT ![i] =
                 IF ok THEN returned(@, committedResponse(@))
                 ELSE returned(@, errorResponse("Commit execution failed"))]
  /\ UNCHANGED <<analyzedFilesByRepo, everStored, coreVars, clientVars, invocations>>

\* validate_tone is called: it answers at once when the call brings related
\* subjects, and awaits the git log otherwise
ValidateToneCall(i, args) ==
  /\ isFree(i)
  /\ calls' = [calls EXCEPT ![i] = validateStart(args)]
  /\ UNCHANGED <<analyzedFilesByRepo, everStored, coreVars, clientVars, invocations>>

\* runRecentCommitContext settles for validate_tone
ValidateToneAfterLog(i, outcome) ==
  /\ calls[i].tool = "validate_tone"
  /\ calls[i].pc = "log"
  /\ calls' = [calls EXCEPT ![i] = validateAfterLog(@, outcome)]
  /\ UNCHANGED <<analyzedFilesByRepo, everStored, coreVars, clientVars, invocations>>

\* calls arriving while others are awaiting git, up to MaxInFlight at a time
NextServer ==
  \E i \in Slots :
    \/ \E repoPath \in ServerRepoPaths : AnalyzeDiffCall(i, repoPath)
    \/ \E outcome \in ServerDiffOutcomes : AnalyzeDiffAfterDiff(i, outcome)
    \/ \E ok \in BOOLEAN : AnalyzeDiffAfterLog(i, ok)
    \/ \E input \in ServerCommitInputs : ExecuteCommitCall(i, input)
    \/ \E ok \in BOOLEAN : ExecuteCommitAfterAdd(i, ok)
    \/ \E ok \in BOOLEAN : ExecuteCommitAfterCommit(i, ok)

SpecServer == InitServer /\ [][NextServer]_vars

\* a client that awaits each response before its next call, with every
\* argument text
NextTools ==
  \/ \E repoPath \in RepoPathInputs : AnalyzeDiffCall(1, repoPath)
  \/ \E outcome \in ToolDiffOutcomes : AnalyzeDiffAfterDiff(1, outcome)
  \/ \E ok \in BOOLEAN : AnalyzeDiffAfterLog(1, ok)
  \/ \E input \in ToolCommitInputs : ExecuteCommitCall(1, input)
  \/ \E ok \in BOOLEAN : ExecuteCommitAfterAdd(1, ok)
  \/ \E ok \in BOOLEAN : ExecuteCommitAfterCommit(1, ok)
  \/ \E args \in ToneCallInputs : ValidateToneCall(1, args)
  \/ \E outcome \in ToneLogOutcomes : ValidateToneAfterLog(1, outcome)

SpecTools == InitServer /\ [][NextTools]_vars

---------------------------------------------------------------------------
(* Claims on the file cache under interleaved calls                        *)

RepoKeys == {Cwd, OtherRepo}

\* the entry of a key: a one-element list holding the file list, or nothing
entryOf(cache, key) == IF key \in DOMAIN cache THEN <<cache[key]>> ELSE <<>>

\* slot i completes the cache write of an analyze_diff call in this step
writesEntry(i, key) ==
  /\ calls[i].tool = "analyze_diff"
  /\ calls[i].pc = "log"
  /\ calls[i].targetRepo = key
  /\ calls'[i].pc = "done"
  /\ ~calls'[i].response.isError
  /\ entryOf(analyzedFilesByRepo', key) = <<calls[i].files>>

\* slot i takes an execute_commit call with auto-staging in this step
startsStaging(i) ==
  /\ calls[i].pc \in {"idle", "done"}
  /\ calls'[i] # calls[i]
  /\ calls'[i].tool = "execute_commit"
  /\ shouldAutoStage(calls'[i].input)
  /\ ~(calls'[i].pc = "done" /\ calls'[i].git = <<>>
         /\ calls'[i].response.text # "No analyzed files found for this repository.")

\* what an auto-staging call does with the list it finds under its key
stagesList(call, list) ==
  IF list = <<>>
  THEN call.pc = "done" /\ call.response.isError /\ call.git = <<>>
  ELSE /\ call.pc \in {"add", "commit"}
       /\ call.files = list
       /\ call.pc = "add" => call.git = <<addArgs(uniqueFiles(list))>>

\* C15: under every interleaving of analyze_diff and execute_commit calls, an
\* entry of the cache changes only when an analyze_diff call for that key
\* completes its write, and then to exactly that call's file list, so that
\* writes never merge and never touch another key; and an execute_commit
\* call with auto-staging reads exactly the list its key holds at that
\* moment, the one stored by the most recent completed write.
C15_ReadsMostRecentWrite ==
  [][/\ \A key \in RepoKeys :
          entryOf(analyzedFilesByRepo', key) # entryOf(analyzedFilesByRepo, key)
            => \E i \in Slots : writesEntry(i, key)
     /\ \A i \in Slots :
          startsStaging(i) =>
            stagesList(calls'[i],
                       cacheGet(analyzedFilesByRepo,
                                normalizeRepoPath(calls'[i].input.repoPath)))]_vars

\* a call is staging the list it read while a later write has already
\* replaced that list, and the other key holds a list too
C15_Witness ==
  \E i \in Slots :
    /\ calls[i].tool = "execute_commit"
    /\ calls[i].pc = "add"
    /\ Cwd \in DOMAIN analyzedFilesByRepo
    /\ OtherRepo \in DOMAIN analyzedFilesByRepo
    /\ analyzedFilesByRepo[Cwd] # calls[i].files
    /\ analyzedFilesByRepo[Cwd] # <<>>

---------------------------------------------------------------------------
(* Claims on execute_commit                                                *)

\* the call in the slot is an analyze_diff call that has returned
analysisReturned(call) == call.tool = "analyze_diff" /\ call.pc = "done"

\* C16: an execute_commit call with auto-staging that follows an analyze_diff
\* call for the same repository stages exactly the changed-file list that
\* call reported, and nothing when it reported no change or failed.
C16_StagesLatestAnalysis ==
  [][(/\ analysisReturned(calls[1])
      /\ startsStaging(1)
      /\ normalizeRepoPath(calls'[1].input.repoPath) = calls[1].targetRepo)
       => stagesList(calls'[1], calls[1].response.changedFiles)]_vars

\* slot 1 takes an execute_commit call in this step
startsExecute ==
  /\ calls[1].pc \in {"idle", "done"}
  /\ calls'[1] # calls[1]
  /\ calls'[1].tool = "execute_commit"

\* the call was refused on the spot: an error, and no git command was run
refused(call) == call.pc = "done" /\ call.response.isError /\ call.git = <<>>

\* autoStageAnalyzed is true or omitted
stagingAsked(input) ==
  ~(input.autoStageAnalyzed.given /\ ~input.autoStageAnalyzed.value)

\* C17: an execute_commit call with autoStageAnalyzed true or omitted, for a
\* repository key under which no analyze_diff call has stored a non-empty
\* file list, returns an error and runs neither git add nor git commit,
\* with dryRun true as with dryRun false.
C17_NoAnalysisNoCommit ==
  [][(/\ startsExecute
      /\ stagingAsked(calls'[1].input)
      /\ normalizeRepoPath(calls'[1].input.repoPath) \notin everStored)
       => refused(calls'[1])]_vars

\* a dry run with a well-formed message was refused for a key whose only
\* stored list is empty
C17_Witness ==
  /\ calls[1].tool = "execute_commit"
  /\ refused(calls[1])
  /\ calls[1].response.text = "No analyzed files found for this repository."
  /\ calls[1].input.dryRun = Given(TRUE)
  /\ calls[1].input.autoStageAnalyzed = Given(TRUE)
  /\ Cwd \in DOMAIN analyzedFilesByRepo
  /\ Cwd \notin everStored

PlaceholderTokens ==
  { <<"<">> \o w \o <<">">> : w \in PlaceholderWords }
  \cup { <<"[">> \o w \o <<"]">> : w \in PlaceholderWords }

\* the texts of a call: the message, and the body and footer when given
textsOf(input) ==
  {input.message}
  \cup (IF input.body.given THEN {input.body.value} ELSE {})
  \cup (IF input.footer.given THEN {input.footer.value} ELSE {})

\* C18 as stated: every call whose message, body or footer contains a
\* placeholder token, in angle or in square brackets, as the whole text or
\* inside a longer text, is rejected.
C18_RejectsEveryPlaceholder ==
  [][(/\ startsExecute
      /\ \E t \in textsOf(calls'[1].input) : \E token \in PlaceholderTokens :
           includes(t, token))
       => refused(calls'[1])]_vars

\* C18 (amended): every call is rejected whose message, body or footer is a
\* placeholder token, in angle or in square brackets, once trimmed and
\* lower-cased, or contains a token in angle brackets anywhere.
C18_RejectsWholeOrAngle ==
  [][(/\ startsExecute
      /\ \E t \in textsOf(calls'[1].input) :
           \/ toLowerCase(trim(t)) \in PlaceholderTokens
           \/ \E w \in PlaceholderWords :
                includes(toLowerCase(t), <<"<">> \o w \o <<">">>))
       => refused(calls'[1])]_vars

\* a call whose message is a square-bracket token, in capitals and between
\* blanks, was rejected although its key holds an analysed list
C18_Witness ==
  /\ calls[1].tool = "execute_commit"
  /\ refused(calls[1])
  /\ calls[1].response.text = "Commit message/body/footer contains placeholder text"
  /\ calls[1].input.message = <<" ","[","S","u","b","j","e","c","t","]"," ">>
  /\ Cwd \in everStored

\* C19: when the trimmed message is empty, or hasPlaceholderText holds for
\* the message, the body or the footer, the call is rejected before any side
\* effect: no git add, no git commit, and the cache is left as it was.
C19_RejectionHasNoSideEffect ==
  [][(/\ startsExecute
      /\ \/ trim(calls'[1].input.message) = <<>>
         \/ \E t \in textsOf(calls'[1].input) : hasPlaceholderText(trim(t)))
       => /\ refused(calls'[1])
          /\ analyzedFilesByRepo' = analyzedFilesByRepo]_vars

\* a call with a placeholder body was rejected although its key holds a list
\* that it would have staged
C19_Witness ==
  /\ calls[1].tool = "execute_commit"
  /\ refused(calls[1])
  /\ calls[1].input.body = Given(<<"<","b","o","d","y",">">>)
  /\ calls[1].input.autoStageAnalyzed = AbsentFlag
  /\ ~calls[1].input.repoPath.given
  /\ cacheGet(analyzedFilesByRepo, Cwd) # <<>>

---------------------------------------------------------------------------
(* The preview-flow command-line client                                    *)

\* an option that was not given a text, and one that was not given a number
NoText == [given |-> FALSE, value |-> ""]

NoNumber == [given |-> FALSE, value |-> 0]

\* argv[i], undefined past the end of the command line
valueAt(args, i) ==
  IF i <= Len(args) THEN [given |-> TRUE, value |-> args[i]] ELSE NoText

\* Number(argv[i + 1]) when it is not NaN: among the texts used here only the
\* empty one is a number
numberAt(args, i) ==
  IF i <= Len(args) /\ args[i] = "" THEN [given |-> TRUE, value |-> 0]
  ELSE NoNumber

DefaultOptions ==
  [staged |-> TRUE, json |-> FALSE, help |-> FALSE, dryRun |-> FALSE,
   confirmCommit |-> FALSE, repoPath |-> NoText, baseRef |-> NoText,
   maxChars |-> NoNumber, commitMessage |-> NoText, commitBody |-> NoText,
   commitFooter |-> NoText]

\* the loop of parseArgs from position i on
RECURSIVE parseFrom(_, _, _)
parseFrom(args, i, opts) ==
  IF i > Len(args) THEN opts
  ELSE IF args[i] \in {"--help", "-h"}
  THEN parseFrom(args, i + 1, [opts EXCEPT !.help = TRUE])
  ELSE IF args[i] = "--json"
  THEN parseFrom(args, i + 1, [opts EXCEPT !.json = TRUE])
  ELSE IF args[i] = "--unstaged"
  THEN parseFrom(args, i + 1, [opts EXCEPT !.staged = FALSE])
  ELSE IF args[i] = "--repo"
  THEN parseFrom(args, i + 2, [opts EXCEPT !.repoPath = valueAt(args, i + 1)])
  ELSE IF args[i] = "--base"
  THEN parseFrom(args, i + 2, [opts EXCEPT !.baseRef = valueAt(args, i + 1)])
  ELSE IF args[i] = "--max-chars"
  THEN parseFrom(args, i + 2,
                 IF numberAt(args, i + 1).given
                 THEN [opts EXCEPT !.maxChars = numberAt(args, i + 1)] ELSE opts)
  ELSE IF args[i] = "--commit-message"
  THEN parseFrom(args, i + 2, [opts EXCEPT !.commitMessage = valueAt(args, i + 1)])
  ELSE IF args[i] = "--commit-body"
  THEN parseFrom(args, i + 2, [opts EXCEPT !.commitBody = valueAt(args, i + 1)])
  ELSE IF args[i] = "--commit-footer"
  THEN parseFrom(args, i + 2, [opts EXCEPT !.commitFooter = valueAt(args, i + 1)])
  ELSE IF args[i] = "--dry-run"
  THEN parseFrom(args, i + 1, [opts EXCEPT !.dryRun = TRUE])
  ELSE IF args[i] = "--confirm-commit"
  THEN parseFrom(args, i + 1, [opts EXCEPT !.confirmCommit = TRUE])
  ELSE parseFrom(args, i + 1, opts)

parseArgs(args) == parseFrom(args, 1, DefaultOptions)

\* typeof options.commitMessage === 'string' && options.commitMessage.length > 0
isExecute(opts) == opts.commitMessage.given /\ opts.commitMessage.value # ""

\* the commit is run whatever the confirmation flag is
confirmed_always(opts) == TRUE

\* if (options.confirmCommit)
confirmed(opts) == opts.confirmCommit

\* a tool call of the client and how it has settled so far
toolCall(name, text) == [name |-> name, message |-> text, settled |-> "pending"]

settle(tcalls, how) == [tcalls EXCEPT ![Len(tcalls)].settled = how]

\* the structuredContent of a validate_tone response, when there is one
noStructured == [given |-> FALSE, applied |-> FALSE, suggestedRewrite |-> ""]

structured(applied, rewrite) ==
  [given |-> TRUE, applied |-> applied, suggestedRewrite |-> rewrite]

\* finalMessage = applied ? suggestedRewrite : options.commitMessage
finalMessage(opts, content) ==
  IF content.given /\ content.applied THEN content.suggestedRewrite
  ELSE opts.commitMessage.value

---------------------------------------------------------------------------
(* Inputs of the client: command lines of up to MaxArgs arguments           *)

MaxArgs == 4

ArgPool ==
  {"--help", "--json", "--commit-message", "--commit-body", "--confirm-commit",
   "--dry-run", "feat: add parser", ""}

CommandLines == SeqsUpTo(ArgPool, MaxArgs)

\* what a callTool promise settles to: it rejects, or it resolves
CallOutcomes == {"thrown", "response"}

ValidateContents ==
  {noStructured, structured(FALSE, "feat: add parser"),
   structured(TRUE, "chore: rewritten")}

InitClient ==
  /\ argv \in CommandLines
  /\ options = Unset
  /\ clientPc = "start"
  /\ toolCalls = <<>>
  /\ IdleCore /\ IdleServer

\* main() up to the await on client.connect; with --help it prints and returns
ClientStart ==
  /\ clientPc = "start"
  /\ options' = parseArgs(argv)
  /\ clientPc' = IF parseArgs(argv).help THEN "exited" ELSE "connecting"
  /\ UNCHANGED <<argv, toolCalls, coreVars, serverVars, invocations>>

\* the server is spawned and connected, or main() fails; once connected,
\* analyze_diff is called
ClientConnect(ok) ==
  /\ clientPc = "connecting"
  /\ IF ok
     THEN /\ toolCalls' = Append(toolCalls, toolCall("analyze_diff", ""))
          /\ clientPc' = "analyze"
     ELSE /\ clientPc' = "exited"
          /\ UNCHANGED toolCalls
  /\ UNCHANGED <<argv, options, coreVars, serverVars, invocations>>

\* analyze_diff settles; in the commit flow validate_tone is called next
ClientAfterAnalyze(how) ==
  /\ clientPc = "analyze"
  /\ IF how = "response" /\ isExecute(options)
     THEN /\ toolCalls' = Append(settle(toolCalls, how),
                                 toolCall("validate_tone", options.commitMessage.value))
          /\ clientPc' = "validate"
     ELSE /\ toolCalls' = settle(toolCalls, how)
          /\ clientPc' = "exited"
  /\ UNCHANGED <<argv, options, coreVars, serverVars, invocations>>

\* validate_tone settles; with the confirmation execute_commit is called
\* with the final message, without it the preview is printed
ClientAfterValidate(how, content) ==
  /\ clientPc = "validate"
  /\ IF how = "response" /\ confirmed(options)
     THEN /\ toolCalls' = Append(settle(toolCalls, how),
                                 toolCall("execute_commit",
                                          finalMessage(options, content)))
          /\ clientPc' = "execute"
     ELSE /\ toolCalls' = settle(toolCalls, how)
          /\ clientPc' = "exited"
  /\ UNCHANGED <<argv, options, coreVars, serverVars, invocations>>

\* execute_commit settles; the result is printed and the client closes
ClientAfterExecute(how) ==
  /\ clientPc = "execute"
  /\ toolCalls' = settle(toolCalls, how)
  /\ clientPc' = "exited"
  /\ UNCHANGED <<argv, options, coreVars, serverVars, invocations>>

NextClient ==
  \/ ClientStart
  \/ \E ok \in BOOLEAN : ClientConnect(ok)
  \/ \E how \in CallOutcomes : ClientAfterAnalyze(how)
  \/ \E how \in CallOutcomes : \E content \in ValidateContents :
       ClientAfterValidate(how, content)
  \/ \E how \in CallOutcomes : ClientAfterExecute(how)

SpecClient == InitClient /\ [][NextClient]_vars

---------------------------------------------------------------------------
(* Claims on the client                                                    *)

executeCalls == { k \in 1..Len(toolCalls) : toolCalls[k].name = "execute_commit" }

\* the responses of analyze_diff and then of validate_tone were received
previewReceived ==
  /\ Len(toolCalls) >= 2
  /\ toolCalls[1].name = "analyze_diff" /\ toolCalls[1].settled = "response"
  /\ toolCalls[2].name = "validate_tone" /\ toolCalls[2].settled = "response"

\* execute_commit is called at most once, only with the confirmation, and
\* only as the third call, after both responses
executeOnlyAfterPreview ==
  /\ Cardinality(executeCalls) <= 1
  /\ \A k \in executeCalls :
       /\ options.confirmCommit
       /\ isExecute(options)
       /\ k = 3
       /\ previewReceived

\* C20 as stated: in a run with a commit message, execute_commit is called
\* if and only if the confirmation was given, at most once, and only after
\* the responses of analyze_diff and then validate_tone.
C20_ExecuteIffConfirmed ==
  /\ executeOnlyAfterPreview
  /\ (clientPc = "exited" /\ isExecute(options)) =>
       (executeCalls # {} <=> options.confirmCommit)

\* C20 (amended): execute_commit is called only with the confirmation, at
\* most once, and only after both responses; and it is called whenever the
\* confirmation was given and both responses were received.
C20_ExecuteOnlyIfConfirmed ==
  /\ executeOnlyAfterPreview
  /\ (clientPc = "exited" /\ isExecute(options) /\ options.confirmCommit
        /\ previewReceived) => executeCalls # {}
  /\ (clientPc = "exited" /\ isExecute(options) /\ ~options.confirmCommit)
       => executeCalls = {}

\* a confirmed run has called execute_commit with the rewritten message
C20_Witness ==
  /\ clientPc = "exited"
  /\ Len(toolCalls) = 3
  /\ toolCalls[3].name = "execute_commit"
  /\ toolCalls[3].message = "chore: rewritten"
  /\ toolCalls[3].settled = "response"

---------------------------------------------------------------------------
(* Direct calls of the three exported functions, between tool calls        *)

MaxInvocations == 3

\* the caller's commit array after findRelatedRecentCommits has returned: the
\* function iterates over it, and pushes to and sorts an array of its own
commitsAfterCall_consumed(commits) == <<>>

commitsAfterCall(commits) == commits

\* the caller's subject array after validateTone has returned: mostFrequentType
\* iterates over it
subjectsAfterCall(subjects) == subjects

InvokeDiffTexts ==
  { <<"d","i","f","f"," ","-","-","g","i","t"," ","a","/","s","r","c","/","a","p","p",".","t","s"," ","b","/","s","r","c","/","a","p","p",".","t","s","\n","+","f","i","x",":"," ","a","d","d"," ","n","e","w"," ","c","a","c","h","e">> }

\* the git diff of the analyze_diff calls in between: a failure, or one file
InvokeDiffOutcomes ==
  { gitFailure, gitOutput(<<"d","i","f","f"," ","-","-","g","i","t"," ","a","/","x",".","m","d"," ","b","/","x",".","m","d","\n","+","h","e","l","l","o","\n">>) }

\* an analysis, a commit list, the default threshold and count
InvokeCorrelations ==
  { << analysisOf(statsOf(<< <<"s","r","c","/","b","u","m","p",".","t","s">> >>, CorrelateCounters)),
       << commitOf("n1", <<"M","e","r","g","e"," ","b","r","a","n","c","h"," ","'","m","a","i","n","'"," ","i","n","t","o"," ","b","u","m","p">>, << <<"s","r","c","/","b","u","m","p",".","t","s">> >>),
          commitOf("g1", <<"f","e","a","t","(","b","u","m","p",")",":"," ","a","d","d"," ","b","u","m","p"," ","s","u","p","p","o","r","t">>, << <<"s","r","c","/","b","u","m","p",".","t","s">> >>) >>,
       6500, 3 >>,
    << analysisOf(statsOf(<<>>, CorrelateCounters)),
       << commitOf("g3", <<"c","h","o","r","e",":"," ","i","n","i","t","i","a","l"," ","c","o","m","m","i","t">>, <<>>) >>,
       0, 3 >> }

\* a message, the related subjects and the default threshold
InvokeTones ==
  { << <<"F","i","x"," ","s","t","u","f","f",".">>, << <<"f","e","a","t",":"," ","a","d","d"," ","p","a","r","s","e","r">> >>, 800 >>,
    << <<"f","e","a","t","(","a","p","i",")",":"," ","a","d","d"," ","p","a","r","s","e","r"," ","s","u","p","p","o","r","t">>, <<>>, 800 >> }

InitInvoke ==
  /\ analyzedFilesByRepo = <<>>
  /\ calls = [i \in Slots |-> IdleCall]
  /\ everStored = {}
  /\ invocations = <<>>
  /\ pc = Unset /\ diffText = Unset /\ analysis = Unset
  /\ IdleScore /\ IdleCorrelate /\ IdleTone
  /\ IdleClient

\* the record of a call: its arguments, what it returned, what the caller's
\* arguments hold afterwards, and the cache before and after
invoked(fn, args, result, held, before, after) ==
  [fn |-> fn, args |-> args, result |-> result, held |-> held,
   cacheBefore |-> before, cacheAfter |-> after]

\* analyzeDiff(text)
InvokeAnalyzeDiff(text) ==
  /\ Len(invocations) < MaxInvocations
  /\ UNCHANGED <<coreVars, serverVars, clientVars>>
  /\ invocations' = Append(invocations,
       invoked("analyzeDiff", <<text>>, analyzeDiff(text), <<text>>,
               analyzedFilesByRepo, analyzedFilesByRepo'))

\* findRelatedRecentCommits(analysis, recentCommits, minCorrelationScore, maxRelated)
InvokeFindRelated(a) ==
  /\ Len(invocations) < MaxInvocations
  /\ UNCHANGED <<coreVars, serverVars, clientVars>>
  /\ invocations' = Append(invocations,
       invoked("findRelatedRecentCommits", a,
               findRelatedRecentCommits(a[1], a[2], a[3], a[4]),
               <<a[1], commitsAfterCall(a[2]), a[3], a[4]>>,
               analyzedFilesByRepo, analyzedFilesByRepo'))

\* validateTone(message, { relatedSubjects, minToneScore })
InvokeValidateTone(a) ==
  /\ Len(invocations) < MaxInvocations
  /\ UNCHANGED <<coreVars, serverVars, clientVars>>
  /\ invocations' = Append(invocations,
       invoked("validateTone", a, validateTone(a[1], a[2], a[3]),
               <<a[1], subjectsAfterCall(a[2]), a[3]>>,
               analyzedFilesByRepo, analyzedFilesByRepo'))

\* the functions are called in any order, while analyze_diff calls of the
\* server write the cache
NextInvoke ==
  \/ \E text \in InvokeDiffTexts : InvokeAnalyzeDiff(text)
  \/ \E a \in InvokeCorrelations : InvokeFindRelated(a)
  \/ \E a \in InvokeTones : InvokeValidateTone(a)
  \/ AnalyzeDiffCall(1, Absent)
  \/ \E outcome \in InvokeDiffOutcomes : AnalyzeDiffAfterDiff(1, outcome)
  \/ \E ok \in BOOLEAN : AnalyzeDiffAfterLog(1, ok)

SpecInvoke == InitInvoke /\ [][NextInvoke]_vars

---------------------------------------------------------------------------
(* Claims on the file classification                                       *)

\* documentation by extension and by directory, code, a test in code, a
\* configuration file, a binary and a lock file, a name with no extension
ClassifiedPaths ==
  { <<"R","E","A","D","M","E",".","m","d">>, <<"d","o","c","s","/","a","p","i",".","t","s">>, <<"s","r","c","/","a","p","p",".","t","s">>, <<"s","r","c","/","a","p","p",".","t","e","s","t",".","t","s">>,
    <<"p","a","c","k","a","g","e",".","j","s","o","n">>, <<"l","o","g","o",".","P","N","G">>, <<"M","a","k","e","f","i","l","e">>, <<"C","a","r","g","o",".","l","o","c","k">> }

headerOf(file) == <<"d","i","f","f"," ","-","-","g","i","t"," ","a","/">> \o file \o <<" ","b","/">> \o file

\* the diffs that name up to MaxFiles of these paths, one header line each
HeaderTexts ==
  { join([i \in 1..Len(fs) |-> headerOf(fs[i])], <<"\n">>) :
      fs \in SeqsUpTo(ClassifiedPaths, MaxFiles) }

InitClassify ==
  /\ pc = "parse"
  /\ diffText \in HeaderTexts
  /\ analysis = Unset
  /\ IdleScore /\ IdleCorrelate /\ IdleTone
  /\ IdleServer /\ IdleClient /\ invocations = Unset

SpecClassify == InitClassify /\ [][NextParse]_vars

hasCodeExtension(file) ==
  /\ extensionOf(file) # <<>>
  /\ extensionOf(file) \notin BINARY_EXTENSIONS

parsedFiles == {analysis.stats.files[i] : i \in 1..Len(analysis.stats.files)}

\* C22: a path is classified as source code, and makes hasCodeFiles true, only
\* if it is none of documentation, test and configuration and has an
\* extension that is not in the binary/lock exclusion list.
C22_CodeOnlyIfNoOtherClass ==
  pc = "parsed" =>
    /\ \A file \in parsedFiles :
         isCode(file) =>
           /\ ~isDoc(file) /\ ~isTest(file) /\ ~isConfig(file)
           /\ hasCodeExtension(file)
    /\ analysis.stats.hasCodeFiles =>
         \E file \in parsedFiles :
           /\ ~isDoc(file) /\ ~isTest(file) /\ ~isConfig(file)
           /\ hasCodeExtension(file)

\* C22 as the code has it: a path is classified as source code, and makes
\* hasCodeFiles true, only if it is neither documentation nor configuration
\* and has an extension that is not in the exclusion list; a test file with
\* such an extension is source code too.
C22_CodeOnlyIfNotDocNotConfig ==
  pc = "parsed" =>
    /\ \A file \in parsedFiles :
         isCode(file) =>
           (~isDoc(file) /\ ~isConfig(file) /\ hasCodeExtension(file))
    /\ analysis.stats.hasCodeFiles =>
         \E file \in parsedFiles :
           ~isDoc(file) /\ ~isConfig(file) /\ hasCodeExtension(file)

\* a test file and a configuration file were parsed: the test file alone
\* makes hasCodeFiles true
C22_Witness ==
  /\ pc = "parsed"
  /\ analysis.stats.files = << <<"s","r","c","/","a","p","p",".","t","e","s","t",".","t","s">>, <<"p","a","c","k","a","g","e",".","j","s","o","n">> >>
  /\ analysis.stats.hasCodeFiles
  /\ analysis.stats.hasTestFiles
  /\ analysis.stats.hasConfigFiles

---------------------------------------------------------------------------
(* Claims on the suggested rewrite                                         *)

\* the rewrite of a message up to and including ': ', which is the rewrite
\* of the message's header with no subject
headerOfRewrite(msg) ==
  LET parsed == parseHeader(trim(msg))
  IN  rewriteOf(parsed,
                IF parsed.ok THEN toLowerCase(parsed.type) ELSE <<>>,
                IF parsed.ok THEN trim(parsed.scope) ELSE <<>>,
                <<>>)

\* the text of the rewrite after 'type(scope): ' or 'chore: '
subjectOfRewrite(msg, rewrite) == sliceFrom(rewrite, Len(headerOfRewrite(msg)))

hasVagueWording(s) ==
  \E i \in 1..Len(VAGUE_SUBJECT_HINTS) :
    includes(toLowerCase(s), VAGUE_SUBJECT_HINTS[i])

hasWhitespaceRun(s) ==
  \E i \in 1..(Len(s) - 1) : s[i] \in SpaceChars /\ s[i + 1] \in SpaceChars

\* C23: the subject part of validateTone's suggestedRewrite does not end with
\* '.', '!' or '?', contains none of the vague phrases in any letter case,
\* contains no run of two or more whitespace characters, and does not start
\* with an upper-case letter.
C23_RewriteSubjectIsNormalized ==
  pc \in {"validated", "revalidated"} =>
    LET s == subjectOfRewrite(message, tone.suggestedRewrite)
    IN  /\ s # <<>> => s[Len(s)] \notin {".", "!", "?"}
        /\ ~hasVagueWording(s)
        /\ ~hasWhitespaceRun(s)
        /\ s # <<>> => s[1] \notin UpperChars

---------------------------------------------------------------------------
(* Further claims on findRelatedRecentCommits                              *)

\* twice the common distinct paths over the sum of the distinct paths of both
\* lists, as a ratio [n, d]; 0 if either list is empty
statedOverlap(currentFiles, previousFiles) ==
  IF currentFiles = <<>> \/ previousFiles = <<>> THEN [n |-> 0, d |-> 1]
  ELSE [n |-> 2 * Cardinality({f \in Range(currentFiles) : f \in Range(previousFiles)}),
        d |-> Cardinality(Range(currentFiles)) + Cardinality(Range(previousFiles))]

\* the Jaccard index of two token sets, as a ratio [n, d]; 0 if either is empty
statedLexical(a, b) ==
  IF a = {} \/ b = {} THEN [n |-> 0, d |-> 1]
  ELSE [n |-> Cardinality(a \cap b), d |-> Cardinality(a \cup b)]

\* 1 exactly when the type of the subject is the type of the first candidate
statedTypeMatch(an, subject) ==
  IF inferConventionalType(subject) = an.recommendedTypes[1].type THEN 1 ELSE 0

\* 0.55 * overlap + 0.25 * lexical + 0.20 * typeMatch, in hundredths over d
statedScore(an, commit) ==
  LET o == statedOverlap(an.stats.files, commit.files)
      l == statedLexical(buildCurrentContextTokens(an), toTokenSet(commit.subject))
      t == statedTypeMatch(an, commit.subject)
  IN  [n |-> 55 * o.n * l.d + 25 * l.n * o.d + 20 * t * o.d * l.d,
       d |-> o.d * l.d]

\* the ratios a and b are the same number
sameRatio(a, b) == a.n * b.d = b.n * a.d

\* the count of thousandths is the ratio s (in hundredths) to three decimals
roundsTo(thousandths, s) ==
  /\ 2 * (10 * s.n - thousandths * s.d) <= s.d
  /\ 2 * (thousandths * s.d - 10 * s.n) <= s.d

\* C24: for every recent commit that is not noise, the score the call computes
\* is 0.55*overlap + 0.25*lexical + 0.20*typeMatch, with overlap twice the
\* common distinct paths over the sum of the distinct paths (0 if either list
\* is empty), lexical the Jaccard index of the two token sets (0 if either is
\* empty) and typeMatch 1 exactly when the subject's type is the type of the
\* first recommended candidate; a returned commit reports that score rounded.
C24_ScoreIsWeightedSum ==
  pc = "correlated" =>
    /\ \A i \in 1..Len(recentCommits) :
         ~isLikelyNoiseCommit(recentCommits[i].subject) =>
           LET s == statedScore(analysis, recentCommits[i])
               c == combinedScore(componentsOfCall[i])
           IN  s.n * c.d = 100 * c.n * s.d
    /\ \A k \in 1..Len(related) :
         \E i \in 1..Len(recentCommits) :
           /\ recentCommits[i].hash = related[k].hash
           /\ roundsTo(related[k].score, statedScore(analysis, recentCommits[i]))
           /\ related[k].reason.typeMatch =
                statedTypeMatch(analysis, recentCommits[i].subject)

\* a returned commit that shares some of the paths and some of the tokens and
\* has the type of the first candidate
C24_Witness ==
  /\ pc = "correlated"
  /\ \E k \in 1..Len(related) : \E i \in 1..Len(recentCommits) :
       /\ recentCommits[i].hash = related[k].hash
       /\ LET o == statedOverlap(analysis.stats.files, recentCommits[i].files)
              l == statedLexical(buildCurrentContextTokens(analysis),
                                 toTokenSet(recentCommits[i].subject))
          IN  /\ 0 < o.n /\ o.n < o.d
              /\ 0 < l.n /\ l.n < l.d
              /\ related[k].reason.typeMatch = 1
              /\ related[k].score > 0

---------------------------------------------------------------------------
(* Further claims on scoreTypes                                            *)

\* the score of a type among the returned candidates, -1 if it is not one
returnedScore(t) ==
  IF \E k \in 1..Len(analysis.recommendedTypes) : analysis.recommendedTypes[k].type = t
  THEN analysis.recommendedTypes[
         CHOOSE k \in 1..Len(analysis.recommendedTypes) :
           analysis.recommendedTypes[k].type = t].score
  ELSE -1

statedFeat ==
  stats.featureSignals + 2 * stats.addedFiles
    + (IF stats.additions > stats.deletions THEN 1 ELSE 0)

\* fix before the default nudge
statedFixSignals ==
  stats.fixSignals + (IF stats.deletions > stats.additions THEN 1 ELSE 0)

statedNudge ==
  IF stats.hasCodeFiles /\ statedFixSignals = 0 /\ statedFeat = 0 THEN 1 ELSE 0

\* C25: the total of feat is featureSignals + 2*addedFiles + (1 if additions
\* exceed deletions), the total of perf is 2*perfSignals, no other rule adds
\* to either, and fix gets the default +1 exactly when source files are
\* present and the fix and feat totals are both 0 at that point.
C25_FeatPerfAndFixNudge ==
  pc = "scored" =>
    /\ typeScores(stats).feat = statedFeat
    /\ typeScores(stats).perf = 2 * stats.perfSignals
    /\ typeScores(stats).fix = statedFixSignals + statedNudge
    /\ returnedScore("feat") \in {-1, statedFeat}
    /\ returnedScore("perf") \in {-1, 2 * stats.perfSignals}
    /\ returnedScore("fix") \in {-1, statedFixSignals + statedNudge}

\* source files with no changed line counted: fix is returned with the nudge
\* as its whole score
C25_Witness ==
  /\ pc = "scored"
  /\ stats.hasCodeFiles
  /\ stats.fixSignals = 0
  /\ statedFeat = 0
  /\ returnedScore("fix") = 1
  /\ returnedScore("feat") = 0

---------------------------------------------------------------------------
(* Claims on what the tool calls leave in the cache                        *)

\* the step is taken by a call of the tool: it takes the call, or goes on
\* with it after an await
stepOf(tool) ==
  IF calls[1].pc \in {"idle", "done"}
  THEN calls'[1] # calls[1] /\ calls'[1].tool = tool
  ELSE calls[1].tool = tool

\* the step ends an analyze_diff call that found a blank diff or failed
analysisWithoutChanges ==
  /\ stepOf("analyze_diff")
  /\ calls'[1].pc = "done"
  /\ \/ calls'[1].response.isError
     \/ calls'[1].response.text = "No changes found in selected diff scope."

\* the step ends an execute_commit call that staged and committed
commitsStaged ==
  /\ stepOf("execute_commit")
  /\ calls[1].pc = "commit"
  /\ calls'[1].pc = "done"
  /\ ~calls'[1].response.isError
  /\ shouldAutoStage(calls[1].input)

\* C26: the cache entry of a key changes only when an analyze_diff call for
\* that key completes successfully on a non-blank diff; an analyze_diff call
\* that finds a blank diff or fails, every validate_tone call and every
\* execute_commit call leave the whole cache as it was, so a commit does not
\* clear the entry and the key still holds the list that was staged.
C26_OnlyAnalysisChangesCache ==
  [][/\ \A key \in RepoKeys :
          entryOf(analyzedFilesByRepo', key) # entryOf(analyzedFilesByRepo, key)
            => writesEntry(1, key) /\ calls'[1].response.hasChanges
     /\ (\/ analysisWithoutChanges
         \/ stepOf("validate_tone")
         \/ stepOf("execute_commit"))
          => analyzedFilesByRepo' = analyzedFilesByRepo
     /\ commitsStaged =>
          /\ cacheGet(analyzedFilesByRepo', calls[1].targetRepo) = calls[1].files
          /\ calls[1].files # <<>>]_vars

\* a commit that staged the two analysed files has succeeded, and the key
\* holds the two files still
C26_Witness ==
  /\ calls[1].tool = "execute_commit"
  /\ calls[1].pc = "done"
  /\ calls[1].response.text = "Commit executed successfully."
  /\ calls[1].response.autoStagedFiles = 2
  /\ Cwd \in DOMAIN analyzedFilesByRepo
  /\ Len(analyzedFilesByRepo[Cwd]) = 2
  /\ calls[1].targetRepo = Cwd

---------------------------------------------------------------------------
(* Claims on the order of git add and git commit                          *)

\* the step invokes git commit for the execute_commit call of slot 1
invokesCommit ==
  /\ stepOf("execute_commit")
  /\ calls[1].pc # "commit"
  /\ calls'[1].pc = "commit"

\* git add of the list was run, and it had settled when git commit was run
addedBeforeCommit(call, files) ==
  call.git = <<addArgs(uniqueFiles(files)), commitArgs(call.input)>>

\* the step is the failure of git add
stagingFails ==
  /\ stepOf("execute_commit")
  /\ calls[1].pc = "add"
  /\ calls'[1].pc # "commit"

isAdd(args) == args # <<>> /\ args[1] = <<"a","d","d">>

isCommit(args) == args # <<>> /\ args[1] = <<"c","o","m","m","i","t">>

\* the commit is invoked only behind a settled git add of the cached files,
\* with and without dryRun
commitFollowsAdd ==
  (invokesCommit /\ shouldAutoStage(calls'[1].input))
    => addedBeforeCommit(calls'[1],
                         cacheGet(analyzedFilesByRepo, calls'[1].targetRepo))

\* a failed git add ends the call with an error and without git commit
failedAddEndsCall ==
  stagingFails =>
    /\ calls'[1].pc = "done"
    /\ calls'[1].response.isError
    /\ \A k \in 1..Len(calls'[1].git) : ~isCommit(calls'[1].git[k])

\* with autoStageAnalyzed false no git add is run, and the call goes the
\* same way whatever the cache holds
unstagedIgnoresCache ==
  (stepOf("execute_commit") /\ ~shouldAutoStage(calls'[1].input)) =>
    /\ \A k \in 1..Len(calls'[1].git) : ~isAdd(calls'[1].git[k])
    /\ startsExecute => calls'[1] = executeStart(calls'[1].input, <<>>)

\* C27: in every execute_commit call that passes the guards with auto-staging
\* on, git add of the cached files has completed when git commit is invoked,
\* with dryRun true as well; when git add fails the call returns an error
\* and git commit is not run; with autoStageAnalyzed false no git add is run
\* and the cache is not read.
C27_AddCompletesBeforeCommit ==
  [][commitFollowsAdd /\ failedAddEndsCall /\ unstagedIgnoresCache]_vars

\* the parts of C27 on the failure of git add and on autoStageAnalyzed false
StagingFailureAndOptOut ==
  [][failedAddEndsCall /\ unstagedIgnoresCache]_vars

\* the commit is invoked behind a settled git add whenever the cached list
\* holds a name that is not blank
CommitFollowsAddOfNamedFiles ==
  [][(/\ invokesCommit
      /\ shouldAutoStage(calls'[1].input)
      /\ uniqueFiles(cacheGet(analyzedFilesByRepo, calls'[1].targetRepo)) # <<>>)
       => addedBeforeCommit(calls'[1],
                            cacheGet(analyzedFilesByRepo, calls'[1].targetRepo))]_vars

---------------------------------------------------------------------------
(* Claims on the default threshold of findRelatedRecentCommits             *)

DefaultMinScore == 6500

\* the two lists name a common path
sharesAFile(currentFiles, previousFiles) ==
  Range(currentFiles) \cap Range(previousFiles) # {}

\* the recent commit of the call that the entry reports
commitOfEntry(entry) ==
  CHOOSE c \in Range(recentCommits) : c.hash = entry.hash

\* C28: with the default threshold 0.65, a recent commit that shares no path
\* with the analysis scores at most 0.25 + 0.20 = 0.45, every returned commit
\* has a path in common with the file list of the analysis, and an analysis
\* with an empty file list yields an empty result.
C28_RelatedSharesAFile ==
  (pc = "correlated" /\ minCorrelationScore = DefaultMinScore) =>
    /\ \A i \in 1..Len(recentCommits) :
         ~sharesAFile(analysis.stats.files, recentCommits[i].files) =>
           LET c == combinedScore(componentsOfCall[i])
           IN  100 * c.n <= 45 * c.d
    /\ \A k \in 1..Len(related) :
         /\ \E c \in Range(recentCommits) : c.hash = related[k].hash
         /\ sharesAFile(analysis.stats.files, commitOfEntry(related[k]).files)
    /\ analysis.stats.files = <<>> => related = <<>>

\* under the default threshold an analysis without files returns nothing,
\* although one recent commit has the type of its first candidate and shares
\* tokens with it, and one changed files
C28_Witness ==
  /\ pc = "correlated"
  /\ minCorrelationScore = DefaultMinScore
  /\ analysis.stats.files = <<>>
  /\ related = <<>>
  /\ \E i \in 1..Len(recentCommits) :
       /\ ~isLikelyNoiseCommit(recentCommits[i].subject)
       /\ componentsOfCall[i].typeMatch = 1
       /\ componentsOfCall[i].tokenSimilarity.n > 0
       /\ combinedScore(componentsOfCall[i]).n > 0
  /\ \E i \in 1..Len(recentCommits) :
       /\ ~isLikelyNoiseCommit(recentCommits[i].subject)
       /\ recentCommits[i].files # <<>>

---------------------------------------------------------------------------
(* Claims on the lowest tone score                                         *)

\* the rules of the violations a result reports
reportedRules(result) ==
  { ruleOfViolation(result.violations[i]) : i \in 1..Len(result.violations) }

\* the result of one call on msg: the header violation and the divergence
\* violation are not both reported, a message without header reports no
\* divergence, and the score is 1 minus the penalties, never under 0.2
headerOrDivergence(result, msg) ==
  /\ ~(1 \in reportedRules(result) /\ 6 \in reportedRules(result))
  /\ ~parseHeader(trim(msg)).ok => 6 \notin reportedRules(result)
  /\ result.toneScore >= 200
  /\ result.toneScore = 1000 - penaltyOfRules(reportedRules(result))

\* C29: validateTone never reports the 'header is not in Conventional Commit
\* format' violation together with the 'type diverges from related history'
\* violation, a header that does not parse disabling the divergence rule; so
\* the toneScore is at least 0.2 and the clamp at 0 never acts.
C29_HeaderExcludesDivergence ==
  /\ pc \in {"validated", "revalidated"} => headerOrDivergence(tone, message)
  /\ pc = "revalidated" => headerOrDivergence(retone, tone.suggestedRewrite)

\* a message without header that breaks the four rules on the subject was
\* scored 0.2 against a related history that has a dominant type
C29_Witness ==
  /\ pc = "validated"
  /\ ~parseHeader(trim(message)).ok
  /\ mostFrequentType(relatedSubjects) # Null
  /\ reportedRules(tone) = {1, 2, 3, 4, 5}
  /\ tone.toneScore = 200

---------------------------------------------------------------------------
(* Claims on the header of the suggested rewrite                           *)

\* 'type(scope): ' or 'type: ' with the type of the header in lower case and
\* its scope trimmed
statedPrefix(header) ==
  toLowerCase(header.type)
  \o (IF trim(header.scope) # <<>> THEN <<"(">> \o trim(header.scope) \o <<")">>
      ELSE <<>>)
  \o <<":"," ">>

\* the header of the text has the breaking-change marker
headerHasMarker(text) ==
  parseHeader(trim(text)).ok /\ parseHeader(trim(text)).bang

\* the result of one call on a message whose header parses: the rewrite is
\* the stated prefix and a subject, no '!' stands before the colon of the
\* prefix, and an applied rewrite has no breaking-change marker
rewriteDropsMarker(result, msg) ==
  LET header == parseHeader(trim(msg))
      prefix == statedPrefix(header)
  IN  header.ok =>
        /\ startsWith(result.suggestedRewrite, prefix)
        /\ result.suggestedRewrite[Len(prefix) - 2] # "!"
        /\ ~headerHasMarker(result.suggestedRewrite)
        /\ (result.applied /\ header.bang) =>
             headerHasMarker(msg) /\ ~headerHasMarker(result.suggestedRewrite)

\* C30: for every message whose header parses, suggestedRewrite is
\* 'type(scope): subject' or 'type: subject' with the parsed type in lower
\* case and the parsed scope trimmed, and has no '!' before the colon even
\* when the header had one; so a rewrite that is applied to such a message
\* removes the breaking-change marker.
C30_RewriteDropsBreakingMarker ==
  /\ pc \in {"validated", "revalidated"} => rewriteDropsMarker(tone, message)
  /\ pc = "revalidated" => rewriteDropsMarker(retone, tone.suggestedRewrite)

\* a message with a scope and the breaking-change marker got a rewrite that
\* is applied, keeps the scope and parses without the marker
C30_Witness ==
  /\ pc = "validated"
  /\ headerHasMarker(message)
  /\ parseHeader(trim(message)).scope # <<>>
  /\ tone.applied
  /\ parseHeader(tone.suggestedRewrite).ok
  /\ parseHeader(tone.suggestedRewrite).scope = parseHeader(trim(message)).scope
  /\ ~parseHeader(tone.suggestedRewrite).bang

====
